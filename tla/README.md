# A TLA+ model of the Fast DDS Statistics Backend

The statistics backend joins DDS domains as a monitor, keeps a database of the entities it discovers
there and of the statistics they publish, and calls the application's listeners when something changes.
This directory holds TLA+ models of its core, the TLC configurations that check them on small instances,
and TLAPS proofs of what matters most for instances of any size.

Paths below are relative to the repository.

## The system

| Component | State | Operations | Hard part |
|---|---|---|---|
| `DatabaseQueue<T>` (`src/cpp/database/database_queue.hpp`) | two buffers, `consuming_`, `consumer_thread_`, `current_loop_` | `push`, `flush`, `stop_consumer`, `start_consumer`, `run` | condition variable, thread hand-over, item in work with the mutex released |
| `StatisticsParticipantListener` (`src/cpp/subscriber`) | none of its own; the shared queues | participant, reader and writer callbacks | callbacks of several monitors on shared queues |
| `DatabaseEntityQueue` (`database_queue.cpp`) | the sample in work | `process_participant`, `process_datareader`, `process_datawriter`, `process_endpoint_discovery` | many critical sections per sample, exceptions on the way |
| `Database`, entities (`database.cpp`, `entities.hpp`) | maps of entities, `active`, references as `fragile_ptr` | `insert_*`, `change_entity_status`, `link_participant_with_process`, `clear_inactive_entities` | status carried up and down, mutex released for callbacks, expired references |
| `Database`, domain view graphs | one JSON tree per domain | `update_participant_in_graph`, `update_endpoint_in_graph`, `regenerate_domain_graph` | physical entities belong to all domains, graphs to one |
| `DatabaseDataQueue<Data>` (`database_queue.cpp`) | the event in work | one conversion per kind of event, `get_or_create_locator` | entities looked up in one critical section and used in another |
| Statistics samples (`database.cpp`, `samples.hpp`, `types/DataContainer.hpp`) | lists of samples, last reported values | `insert`, `clear_statistics_data`, `dump_database`, `load_database` | clocks that step back, counters stored as increments, round trip |
| Queries (`StatisticsBackend.cpp`, `detail/`) | none | `get_data`, `select`, eight aggregators | intervals and bins; pointers followed without a lock |
| `DatabaseDataQueue<ExtendedMonitorServiceStatusData>` | `participant_enqueued`, `proxy_entity_handles_to_guid` | proxy samples, disposals, status samples | two consumers on one database, placeholders that discovery replaces |
| Alerts (`Alerts.hpp`, `database.cpp`, `StatisticsBackendData.cpp`) | `alerts_`, the watcher thread | set, remove, trigger, time out, stop the watcher | iteration while the mutex is released |
| Monitor lifecycle, spy (`StatisticsBackend.cpp`, `StatisticsBackendData.cpp`) | monitors and their DDS entities, `lock_` | `init_monitor`, `stop_monitor`, `start_topic_spy`, `stop_topic_spy`, `reset` | rollback of partial creation; one `unique_lock` object shared by threads |
| Listener notifications (`StatisticsBackendData.cpp`) | masks, counters | `on_*_discovery`, `on_data_available`, `on_status_reported` | called with and without the mutex of the database |

How they interact: a DDS thread enters a discovery callback of the listener of its monitor. The callback
stops the consumer of the data queues, pushes the entity to the entity queue, flushes that queue and starts
the data consumers again. The consumer thread of the entity queue applies the sample to the database under
`Database::mutex_`, taken and released several times for one sample, and calls the application's listeners,
for physical entities and topics in the middle of a change of status with the mutex released
(`execute_without_lock()`). The consumers of the two data queues look entities up, insert samples and, for a
proxy that is not known, push to the entity queue in turn. The application calls the backend from threads of
its own, and the alert watcher is one more thread.

What makes it correct: samples are processed once and in order; a flush is a barrier; no wake-up is lost;
the data consumer rests while an entity is created; an entity is active exactly while it, or something in
it, is on the network; the listeners were told what the database says; references do not expire while they
are needed; the graphs show the active entities and their status; increments add up to the counters they
come from; a query returns the samples of its interval; every alert is evaluated or times out; a monitor is
created completely or not at all. `PROJECT.json` lists the hazards line by
line; those that the runs show to bite are under "Runs".

## Modules

| Module | Models |
|---|---|
| `AbstractQueue` | what a queue promises: FIFO, exactly once, flush as a barrier, silence while stopped |
| `DatabaseQueue` | the double buffered queue |
| `DatabaseQueueProofs` | its theorems |
| `ParticipantListener` | callbacks on a data queue (`DatabaseQueue`) and the entity queue (an `AbstractQueue`) |
| `ListenerProofs` | its theorems, over those of the queue |
| `EntityDatabase` | the entity queue's handlers, the entities, the graphs, the notifications |
| `MCEntityDatabase` | the small networks TLC uses |
| `EntityDatabaseProofs`, `DatabaseActivityProofs` | its theorems: types and references; activity and notifications |
| `StatisticsData`, `MCStatisticsData` | the samples in the database: insert, clear, dump, load, `get_data()` |
| `StatisticsDataProofs` | its theorems |
| `DataQueue`, `MCDataQueue` | the consumer that turns events into samples, over `StatisticsData` |
| `MonitorService`, `MCMonitorService` | proxies and status levels: both consumers, the graph, clearing |
| `MonitorServiceProofs` | its theorems |
| `Alerts`, `MCAlerts` | alerts, the consumer that triggers them, the watcher |
| `AlertsProofs` | its theorems |
| `Monitors` | monitors and spies, object by object, under the lock of the singleton |
| `MonitorsProofs` | its theorems |

**`DatabaseQueue`.** One variable per member (`foreground`, `background`, `consuming`, `consumer_thread`,
`current_loop`), program counters for the consumer threads (`run_pc`) and the callers (`call_pc`), the local
`tmp_thread_` and `last_loop` of each caller, and the set of threads asleep in `cv_.wait()`. An action is one
critical section of `cv_mutex_` or one step outside it. In particular `stop_consumer()` is three actions
(critical section, notification, join), and so is the treatment of an item (`front()`, `process_sample()`
with the mutex released, `pop()`). Items are numbered by their push. A reference to an element that was
cleared away yields any value.

**`ParticipantListener`.** Each callback thread goes through stop, push (a participant that appears or leaves
also pushes its metatraffic writer), flush and start. The reader callback does not stop the data queue but
starts it, as in the code. The entity queue, whose consumer no callback stops, is an `AbstractQueue`: the
theorem `QueueRefinement` is what allows this.

**`EntityDatabase`.** A network is given by constants: which user is on which host, and so on, down to
endpoints and their topics. `stored` and `active` are the entities in the maps and those with `active` set.
The references that can expire are `linked` (the `process` of a participant), `orphans` and `topicless`
(endpoints whose participant or topic was erased). `task` is the sample in work and the next critical
section of its handler, `tell` the notifications of a change of status that are still due, each made with
the mutex released. `told` is what the listeners know, `graph` the entities in each domain's graph, `regen`
the graphs that a running `clear_inactive_entities()` still has to regenerate. `terminated` records that
an exception left `change_entity_status_of_kind()`, which is `noexcept`. `network` is what exists: DDS
announces it in the order `Happens` allows (an assumption about DDS, not code of this repository).

**`StatisticsData`.** A list `<<kind of data, entity, key>>` is one `DataContainer`; `data` holds their samples,
`last` the last reported values. A sample is a time and a number, which for a byte counter has the two digits
`count` and `magnitude_order` in base `Base` (2^64 in the code). The source's clock may step back, its counters
may not. `query` is a call of `get_data()` between its critical sections: `held` are the pointers that `select()`
returned, `freed` those that dangled in this call. What a dangling pointer yields is undefined, so the properties of
the result say nothing once there is one. The pairs of a query are of the kinds its data is about, which
`check_entity_kinds()` ensures. Those pointers stay valid except for `SAMPLE_DATAS`, where a new sample replaces the
one with its sequence number. Without bins the samples are copied (`Copied`), otherwise `add_data()` aggregates them.
All eight aggregators are computed at once. `file` is what a dump
wrote, `phase` leads through a restart and a load. `reported`, `gone` and `wanted` are history.

**`DataQueue`** adds the consumer: an event is looked up (locator, remote, source) and inserted, one critical
section each, while endpoints bring locators and the application erases entities.

**`MonitorService`.** One action per critical section of the monitor service consumer (`task`), two per sample of
the entity queue's consumer (`queue`, `due`): the interleavings inside its handlers are the subject of
`EntityDatabase`. `source`, `level` and `nodes` are the discovery source, the status and the status shown in the
graph; `handles` and `enqueued` are the two maps of the queue; `born` makes the id of an entity that is created
again differ. All participants run in one process and an endpoint is alone on its topic. `insert()`,
`update_entity_qos()` and the lookup of a known proxy's id are one action (`InsertProxy`): they fail only for an entity
that was erased, and none comes back under its old id. Nothing makes the consumer of the monitor service wait for the
entity queue, so that a disposal may be processed while the announcement is still there. `overtaken` records the
entities to which this happened, `direct` those that plain discovery announced too, `cleared` the endpoints whose
status samples were cleared since the last one that was taken, and `reports` and `said` what was reported and said of each:
all five are history.

**`Alerts`.** `alerts` maps identifiers to an alert and the two ages its timestamps stand for; `consumer` is the
iteration of `trigger_alerts_of_kind_nts()`, which stops at every callback, with the alerts that are `due` and how
often each was `seen`; `watcher` and `stopper` are the
watcher thread and `stop_alert_watcher()`. `fate` is the history of what became overdue. A sample restarts the timeout of
every alert of its kind and domain, also of those whose names do not match, as in `Alerts.hpp:211`. A sample of an
endpoint that was erased always ends the iteration with an exception, where the code goes on as long as topic and
participant are there; the wildcard `ALL` stands for the same as the empty name and is left out.

**`Monitors`.** `objects` are the DDS entities and listeners that exist, and a deletion that DDS refuses leaves
its object there. `lock()` is three steps (test of the flag, mutex, flag), and so is `unlock()`.

## Runs

| Run | Expect | Question |
|---|---|---|
| `queue_one_controller` | pass | Does the queue, stopped and started by one thread at a time, implement `AbstractQueue`, keep the item in work valid, and do flush, stop and the consumer always make progress? |
| `listener_callbacks` | pass | While one monitor has callbacks, does the data consumer rest until the entity is created, and does the callback return? With two monitors, is the data queue never left stopped, and is every consumer thread joined exactly once? |
| `listener_single_consumer` | violation | With two monitors, is there one consumer? No. |
| `database_network` | pass | Cleared only between samples, do the entities and the listeners follow the network, do references stay alive, and is the graph of each of two domains complete and, but for what they share, up to date? |
| `database_concurrent_clear` | pass | If the application clears at any time, what is still guaranteed? |
| `samples` | pass | Do increments add up through clears and clocks that step back, does a load restore a dump, and does `get_data()` return and aggregate the samples of its interval? |
| `database_topics_told` | violation | Are listeners never told that a topic is undiscovered? They are. |
| `data_queue_traffic` | violation | Is an event about known entities stored? Not the traffic of a participant. |
| `alerts` | pass | Is every alert evaluated once per sample although callbacks release the mutex, told when overdue, and does the watcher stop? |
| `monitors` | pass | Do failures of DDS, stops and spies leave nothing behind, do listeners outlive their entities, and do calls exclude each other and return? |
| `monitor_service` | pass | Do proxies, discovery, status samples and clearing, of entities and of samples, leave sources, levels, graph and activity right? |
| `monitor_disposal_overtaken` | violation | Does every disposal of a proxy take effect? Not one that overtakes the announcement in the entity queue. |

Where documents and code differ, the passing runs take neither side. `ToldWhatIs` asks that listeners know exactly which
participants and endpoints are active and were told of everything else that is, and leaves open whether they hear of
the end of topics and physical entities. `StatusIsWorstOfNewest` leaves open whether `INCOMPATIBLE_QOS` alone is an
error. It also leaves out an endpoint whose status samples were cleared, until the next sample that is taken:
`clear_statistics_data()` empties the lists (`database.cpp:6458`) and keeps the status, so that an error remains which no
stored sample shows, and the next sample, of whatever kind, computes the status from what is left.

The violations are explained under "findings" in `PROJECT.json`, with the sentence of the repository each
one contradicts. More disagreements between code and documents show up by changing one line of these
configurations, or adding a property to it that the module defines:

- Queue: `FlushReturnsEmpty` in `QueueOneController.cfg`. `flush()` returns at once when there is no consumer,
  with the comment "already empty" (`database_queue.hpp:122`) and "\post both_empty() returns true"
  (`database_queue.hpp:115`), but `stop_consumer()` leaves what was pushed in the queue.
- Listeners: `QuietForAll` in `ListenerCallbacks.cfg`. One monitor's callback starts the data queue
  which another stopped "until the new entity is created" (`StatisticsParticipantListener.cpp:100`).
- Graphs: `GraphOnlyActive` in `DatabaseNetwork.cfg`. `process_participant()` updates the graph of its own
  domain only (`database_queue.cpp:175`); hosts, users and processes stay in the other one although the graph is
  "the entire graph of active entities" (`docs/rst/statistics_backend/get_domain_view_graph.rst:8`).
  `GraphOfDomain` there: a regenerated graph holds participants of other domains on the same host.
- Graphs: `Pid <- ReusedPid` in `DatabaseNetwork.cfg` violates `GraphAllActive`. A process is refused when its
  host has another with that PID, also when the other ended long ago (`database.cpp:751`).
- Clearing at any time: `ReferencesAlive` in `DatabaseConcurrentClear.cfg`. An endpoint stays whose participant or
  topic was erased, although "These references are supposed to not be destroyed as long as the entity (that
  holds them) lives" (`fragile_ptr.hpp:47`). `MirrorsNetwork` there: an entity that returns is erased between
  `get_entity_kind()` and the status change, although `clear_inactive_entities()` "deletes from the database those
  entities that are no longer alive and communicating" (`docs/rst/statistics_backend/clear.rst:15`). `ToldWhatIs`
  there: the notification of an undiscovery is lost.
- Listeners: `PhysicalNeverUndiscovered` in `DatabaseTopicsTold.cfg`. Like topics, hosts, users and processes are told as
  undiscovered, where `docs/rst/listeners/physical_listener.rst:20` says "Hosts are never *undiscovered*".
- Queries: `Queries <- UnevenQueries` and `EverySampleHasABin` in `StatisticsSamples.cfg`. The assertion in
  `add_data()` fails, and without assertions a write past the bins follows, when the interval is not a multiple
  of the number of bins. `ConcurrentClear = TRUE` violates `PointersAlive`: clearing during `get_data()` frees what it
  reads.
- Alerts: `ConcurrentRemove = TRUE` in `AlertsWatched.cfg` violates `EveryAlertEvaluated`: the iterator of the alert
  being told becomes invalid. `Configs <- TopicAlerts` with `FiltersAsDocumented`: "Empty strings act as wildcards"
  (`docs/rst/types/alert_info.rst:18`), but `entity_matches()` tests `host_name` three times.
- Monitors: `LockSynchronizes` in `MonitorsTwoThreads.cfg`. A thread that finds the lock taken gets an exception
  instead of "thread synchronization" (`StatisticsBackendData.hpp:163`). `RefusedOnlyIfMonitored` there:
  "BadParameter if a monitor is already created for the given domain" (`StatisticsBackend.hpp:79`) is also thrown
  for ever after a creation that failed, or a stop.
- Monitor service, in `MonitorServiceProxies.cfg`: `AnnouncedActive`: a proxy that returns is
  not activated again, or is pushed for ever as an update of a participant that was cleared
  (`database_queue.cpp:1586`). `KnownKinds`: the assertion of the entity queue fails for the empty sample of an
  unknown entity. `NeverTerminated`: `update_graph_on_updated_entity()` throws outside of every try block
  (`database_queue.cpp:1874`). `StatusIsWorstOfAll`: an endpoint with incompatible QoS stays OK unless the extended status
  says so, where `docs/rst/types/status_kind.rst:82` gives `INCOMPATIBLE_QOS` the level ERROR and line 72 takes the
  level "from all status data".

`ListenerTypeOK`, `DataTypeOK`, `AlertsTypeOK`, `MonitorsTypeOK` and `MonitorServiceTypeOK` describe the states of their modules;
they hold in the runs above, whose configurations leave them out because the other properties say more.

### Bounds

- Queue: two clients, one of them controlling, two thread identities (with one controller a third is never
  needed: `OneThread` in the proofs), three items (one in work, one behind it in the batch or waiting, one more
  that a flush must not wait for), and `Loops = 2` values of `current_loop_`, so that it wraps around in every
  run; the proofs cover any number. `MaxProcess` stops runs that process garbage, which only mutants do.
- Listeners: two callback threads with two callbacks between them, which may be those of one; two samples; three
  thread identities, since two threads may be joining while a third starts.
- Database: the network has two users, a process with two participants, a topic with two endpoints and a
  participant with two endpoints: every "does something else keep it active" has both answers. The shared process
  has a participant in each of two domains, and one user is in one domain only. The two endpoints are
  interchangeable (`SYMMETRY`). For clearing at any time one process with two participants is enough. Nothing bounds
  the length of a behaviour: entities come and go for ever.
- Samples: one list each of a counter and a byte counter and two of sequence numbers; three samples
  (`MaxSamples`) at three instants (`MaxTime`), so that a clear and a rejection fall between two of them; two
  calls that clear or dump (`MaxCalls`); counters up to 2 with `Base = 2`, so that the second digit carries. The
  queries are one without bins, one with two bins and one over sequence numbers.
- Alerts: two alerts (`MaxAlerts`), one of each kind, endpoints that match and that do not, ages up to 2 (`MaxAge`)
  for a timeout of 1.
- Monitors: two threads, two domains, two topics and one spied topic; nothing bounds the calls.
- Monitor service: one participant with one reader, six samples or announcements (`MaxArrivals`), two instants
  (`MaxTime`) and four kinds of status. Six are enough to announce, dispose of, clear and announce again. Clearing is not bounded. With the race of the two
  consumers and both ways of clearing this is the largest run, with nearly nine million states.

### Deadlock and fairness

Deadlock is checked except in the listener runs, `samples`, `data_queue_traffic` and the runs of the monitor service,
whose inputs are bounded, and in `database_concurrent_clear` and `monitors`, where `std::terminate()` ends the program.

Liveness is checked under weak fairness of the consumer threads and of threads that are inside a call
(`flush()`, `stop_consumer()`, a callback). The code justifies it: they are threads of the operating system
that wait only for `cv_mutex_`, held for finite times, and on `cv_`, which is modelled with its set of
sleepers, so a lost wake-up would show. In `Alerts` the consumer, the watcher and a thread in
`stop_alert_watcher()` are fair: the watcher's wait has a timeout, and callbacks are assumed to return. In
`Monitors` each thread inside a call is; `std::mutex` is not fair, so `CallReturns` promises the return of some call,
and of each one once the others cease. Nobody is forced to call anything. Pushes are bounded: while pushes
never pause, a flush may wait for ever, since the consumer swaps in the next batch without releasing the
mutex.

## Proofs

`DatabaseQueueProofs`, for any sets of clients, controllers and threads and any bounds:

- `TypeCorrect` and `ThreadOwnership` hold with any number of controllers. `OwnerInv` strengthens `OneOwner`
  with what links the program counters to the handles: `tmp_thread` is set exactly during notification and
  join, two callers never hold the same thread, and a thread runs exactly if someone owns it.
- `FifoDelivery`, `NoItemLost`, `FrontStaysValid`, `FlushIsBarrier` and `QueueRefinement` assume
  `SingleController`; `listener_single_consumer` shows that it is needed. The invariant is `FifoInv`: one thread
  (`OneThread`), the foreground queue non-empty only while that thread consumes it, its reference at the
  head, and the concatenation of the two buffers equal to the numbers after those popped (`OrderInv`). For the
  barrier, `FlushInv` says that after its first wait a flush waits either for nothing behind the foreground
  queue or still for the loop it saw: this is what makes one wrapped-around value of `current_loop_` enough.

`EntityDatabaseProofs`, for every network and with clearing at any time:

- `DBTypeCorrect`: types, and with them that only stored entities are active, linked or marked.
- `InUseIsKept`: `NeverClearedInUse`. The inductive invariant `DBInv` adds to the types that unmarked references
  lead to stored entities (`RefInv`), that activity is carried upwards inside one critical section (`ActiveInv`),
  and which kind of sample a handler may hold at each step (`TaskInv`). The heart of it is `RiseActive` and
  `FallActive`: what becomes active with a process completes the chain above it, and what becomes inactive
  has no other active member. Endpoints and topics do not have this property (`ReferencesAlive` above).

`DatabaseActivityProofs`, for every network, on top of `DBInv`:

- `HostsToldFirst`, with clearing at any time. `TellInv`: a notification that is due says what is the case, parents
  come before their children, and of every other physical entity or topic the listeners know the status.
- `ReferencesKept`, `NetworkMirrored`, `ActivityCarried` and `ListenersUpToDate` assume `~ConcurrentClear`, an application
  that clears while no sample is in work; `DatabaseConcurrentClear.cfg` shows that they need it. `SequentialInv`
  says what holds in the middle of a handler: no reference expired (`NoneExpired`); a topic is active with its
  endpoints except while one of them is being created (`TopicInv`); the sample in work agrees with the network,
  which excludes each branch that drops it (`SampleInv`); everything else mirrors the network (`MirrorInv`) and was
  told (`ToldInv`).

- `ActiveIsShown` (`GraphAllActive`) and `GraphIsWhatIsActive` (`GraphIsActive`, and with it `NoStaleNodes`) also assume `PidsDistinct`, without which a
  process is refused and never shown (`ReusedPid` above), and the second `SingleDomain`, because a handler updates the
  graph of one domain only. A handler leaves the graph for its end, so the invariants say what the graph lacks and
  what it has too much in between. `OwnedInv`: every stored participant but the one in work has its process, and
  what a handler looks up it finds; hence each updates the graph. `ShownInv`: what is active is shown, except the
  entity in work, its topic and the endpoints that fall with it. `OnlyShownInv`: what is shown is active, except what
  leaves with the participant in work and a topic with an endpoint whose undiscovery is still due. `Works` sums up the
  steps before the graph update, and one lemma for each way of updating the graph (`RegenerateStep`,
  `ClearGraphStep`, `ParticipantGraphStep`, `EndpointGraphStep`, `InfoGraphStep`) closes the gap.

`ListenerProofs`, for any number of callback threads. Each of their steps is a step of the data queue or leaves it
alone (`QueueStep`), so `OneOwner` carries over from `DatabaseQueueProofs` (`CallbackThreadOwnership`).
`DataQueueRestarted` needs `StoppedBy`: who stopped the queue has not yet come to its `start_consumer()`.
`QuietUntilCreated` holds as long as one of the listeners had callbacks (`Alone`), and is false afterwards; its
invariants follow the join (`JoinInv`) and, of a listener that is alone, the entity from its push to the end of the
flush (`EntityInv`).

`MonitorsProofs`, for any number of threads, domains and topics: `BodiesExclusive` (`LockInv`: being inside is owning the
mutex, whatever the flag says), `RollbackComplete` and `ListenersAlive`. What a call still has to create or to delete is a
sequence in which each object comes after those it needs (`Ordered`). The orders of the code are shown to be such
sequences, and every creation, failure and deletion keeps what is left one (`CreateInv`, `DeleteInv`).

`MonitorServiceProofs`, for any participants, endpoints, kinds of status and bounds:

- `StatusShown` (`ShownInv`: a level that is not shown is the one the consumer is about to show), `DiscoveryPrevails`,
  `StatusByTimestamp` (`NewestInv`: what is kept of a kind is the newest of the reports that are left, and the status
  is computed from what is kept unless samples were cleared since), `ParticipantsQueuedFirst` (`EnqueuedInv`).
- `DisposalTakesEffect` holds for all interleavings of the two consumers. What is active or about to be has a handle
  by which it can be disposed of, or the consumer is about to store it (`DisposableInv`), unless it is `Excused`: seen by
  plain discovery, or overtaken by a disposal. While the disposal of anything else is in work nothing creates its
  entity anew (`QuietInv`). `monitor_disposal_overtaken` shows that the exception is needed.

`StatisticsDataProofs`, for any lists, number of samples, times and base:

- `SamplesSorted` and `DumpRestored`. `StoreInv`: data and file are sorted; the last report of a counter is not older
  than its newest sample (`LastCovers`), which is why `load_data()` takes it; during a load what is stored and what is
  pending make up the file, so that no sample is refused as old.
- `NoIncrementLost`. `CountInv` adds that the digits of the last report are in range and that it is not above the
  value the source has reported. `MinusIsDifference` shows that `operator -` is the difference of the two values also
  when it borrows from the second digit.
- `PointersKept` assumes `~ConcurrentClear`. `HeldInv`: every pointer held leads to a stored sample.
- `RawIsTheInterval` (`RawIsInterval`) assumes `PairsDistinct`: given a pair twice, `get_data()` returns its samples twice.
  `RawInv`: what was copied and what is held enumerate, each once, what should be found, and none of it is from
  the lists of a pair still to do. `SelectInterval` shows that the loop of `select()` finds the interval in a
  sorted list although it ends at the first later sample, `SortExists` that the samples of `SAMPLE_DATAS` can be sorted.
- `AssertionHolds`: `EverySampleHasABin`, the assertion in `add_data()`, assuming `EvenBins`, that the interval of a call is a
  multiple of its number of bins. `UnevenQueries` above shows that it is needed. `BinInv`: what is held is of the
  interval and the bins are those of `prepare_bins()`; `BinOfInterval` is the arithmetic.

`AlertsProofs`, for any alerts and endpoints: `EachAlertOnce` assumes `~ConcurrentRemove`. `IterationInv`: at a callback what
is due has been seen up to the position of the iterator, and nothing has beyond it. `AlertsTypeCorrect` adds that a
timeout is never measured from before the last trigger.

`Total()`, `select()` and `add_data()` are recursive functions over a list. That they satisfy their equations, and what they compute,
is shown by the least counterexample: the natural numbers are well-founded (`Least`), a function defined step by step
exists (`Recursion`), and the least index at which a claim fails does not exist.

Only model-checked: all liveness (`FlushReturns`, `StopReturns`, `Drained`, `CallbackReturns`, `TimesOut`, `WatcherStops`,
`CallReturns`), which TLAPS does not reach; what the aggregators compute (`BinsAreRight`), whose reference
definitions sum over sets with the folds of the community modules and sort with `SortSeq` of module TLC, which the
prover cannot expand; `DataQueue`, whose run is a violation.

Constants are assumed only what the code gives: the kinds of entities are disjoint, each has its parent, an
endpoint and its topic are in the domain of its participant (`KindsAssumption`, `DatabaseAssumption`); thread
identities are not clients and the bounds are natural numbers (`QueueAssumption`); the base of a counter is positive
and sequence numbers are finitely many naturals, and queries are about entities of the right kinds
(`DataAssumption`); the limits of an alert are below the oldest
age (`AlertsAssumption`). The hypotheses `~ConcurrentClear`, `~ConcurrentRemove` and `SingleController`
restrict what the application or DDS does, `PidsDistinct` and `SingleDomain` the network, `PairsDistinct` and `EvenBins` the parameters of `get_data()`; without each the property is false, as said under "Runs" or here.

## Not modelled, and the plan

Abstracted in what is modelled: names, QoS, aliases, metatraffic marks, application ids, node attributes in
graphs other than the status, the physical entities and locators of proxies, the JSON text of a dump. In
`EntityDatabase` all samples have the discovery source `DISCOVERY`; the other sources are in `MonitorService`.
Callbacks of the application return and do not call the backend: the two that are made with `mutex_` held
(`database.cpp:4957` and `1056`) would deadlock if they did.

Not modelled: user data formatting and QoS serialization (no state), notifiers (a shell command), public value
types, `get_info()` and the other reads of one critical section, code generated from IDL, the vendored JSON
library, examples. The last three are most of the repository's lines: 27,000 of JSON, 20,000 of generated types
and 10,000 of examples and their parsers, of some 86,000. The library itself, `src/cpp`, has 24,000, of which the
definitions here stand for more than a third; most of the others spell out, for each of eighteen kinds of data
and three kinds of entity, what one definition says once.

Next, in this order:

1. The four cases of `update_participant_discovery_info_nts()`: placeholders share a host, user and process named
   Unknown, which are renamed in place when one of them becomes known (`database.cpp:4887`).
2. Proofs: the count and the sum of a bin, a part of `BinsAreRight`, from `RawInv` and the recursion of `add_data()`.
3. Proofs: the graphs of several domains, once a handler updates all the graphs its entities are in.
