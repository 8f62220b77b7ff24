------------------------------ MODULE Monitors ------------------------------
(***************************************************************************)
(* The life of monitors: init_monitor() with its rollback, stop_monitor(), *)
(* start_topic_spy(), stop_topic_spy() and reset(), called by threads of   *)
(* the application, and the lock of StatisticsBackendData they take, a     *)
(* std::unique_lock that all threads share.                                *)
(*                                                                         *)
(* An object is a DDS entity or a listener of the monitor of a domain.  As *)
(* in DDS, an entity cannot be deleted while others depend on it.          *)
(***************************************************************************)
EXTENDS Naturals, Sequences, FiniteSets, SequencesExt

CONSTANTS
  Threads,      (* threads of the application                              *)
  Domains,      (* the domains to monitor                                  *)
  Topics,       (* the statistics topics                                   *)
  SpyTopics,    (* the user topics to spy on                               *)
  NoTopic, NoThread

ASSUME MonitorsAssumption ==
  /\ NoThread \notin Threads
  /\ IsFiniteSet(Topics) /\ IsFiniteSet(SpyTopics)

VARIABLES
  domains,     (* the names of the domains in the database                 *)
  monitors,    (* monitors_by_entity_                                      *)
  objects,     (* the objects that exist                                   *)
  forgotten,   (* spy listeners that exist and no map holds any more       *)
  owns,        (* the flag inside lock_                                    *)
  device,      (* the thread that holds mutex_                             *)
  call,        (* what each thread is doing                                *)
  terminated   (* std::terminate() was called                              *)

objs == <<domains, monitors, objects, forgotten>>
lock_ == <<owns, device>>
vars == <<objs, lock_, call, terminated>>

Object(kind, d) == <<kind, d, NoTopic>>
TopicObject(kind, d, t) == <<kind, d, t>>

(* The topics in the order in which they are created. *)
TopicOrder == SetToSeq(Topics)
Each(kind, d) == [i \in 1 .. Len(TopicOrder) |-> TopicObject(kind, d, TopicOrder[i])]
AllSpies(kind, d) == {TopicObject(kind, d, u) : u \in SpyTopics}

NoCall == [at |-> "idle"]

Init ==
  /\ domains = {} /\ monitors = {} /\ objects = {} /\ forgotten = {}
  /\ owns = FALSE
  /\ device = NoThread
  /\ call = [th \in Threads |-> NoCall]
  /\ terminated = FALSE

(* The objects that must be deleted before an entity can be. *)
Dependents(o) ==
  LET d == o[2] t == o[3]
  IN  CASE o[1] = "participant" -> {Object("subscriber", d)} \cup Range(Each("topic", d))
        [] o[1] = "subscriber" -> Range(Each("reader", d))
        [] o[1] = "topic" -> {TopicObject("reader", d, t)}
        [] o[1] = "spy_participant" ->
             {Object("spy_subscriber", d)} \cup AllSpies("spy_topic", d)
        [] o[1] = "spy_subscriber" -> AllSpies("spy_reader", d)
        [] o[1] = "spy_topic" -> {TopicObject("spy_reader", d, t)}
        [] OTHER -> {}

(* The listener whose methods an entity calls from the threads of DDS. *)
Calls(o) ==
  CASE o[1] = "participant" -> {Object("participant_listener", o[2])}
    [] o[1] = "reader" -> {Object("reader_listener", o[2])}
    [] o[1] = "spy_reader" -> {TopicObject("spy_listener", o[2], o[3])}
    [] OTHER -> {}

Deleted(o) == IF Dependents(o) \cap objects # {} THEN objects ELSE objects \ {o}

----------------------------------------------------------------------------
(* lock() and unlock(), of a unique_lock that is shared.  owns is read and  *)
(* written without protection.                                              *)

Goto(th, at) == call' = [call EXCEPT ![th].at = at]

Call(th, op, d, u) ==
  /\ call[th] = NoCall
  /\ call' = [call EXCEPT ![th] = [at |-> "lock", op |-> op, d |-> d, u |-> u, todo |-> <<>>]]
  /\ UNCHANGED <<objs, lock_, terminated>>

(* "resource_deadlock_would_occur" is thrown if the flag is set.            *)
LockTest(th) ==
  /\ call[th].at = "lock"
  /\ IF owns THEN call' = [call EXCEPT ![th] = NoCall] ELSE Goto(th, "wait")
  /\ UNCHANGED <<objs, lock_, terminated>>

(* Mutant: the flag takes the place of the mutex. *)
LockMutex_FlagOnly(th) ==
  /\ call[th].at = "wait"
  /\ device' = th
  /\ Goto(th, "own")
  /\ UNCHANGED <<objs, owns, terminated>>

LockMutex(th) ==
  /\ call[th].at = "wait"
  /\ device = NoThread
  /\ device' = th
  /\ Goto(th, "own")
  /\ UNCHANGED <<objs, owns, terminated>>

LockOwn(th) ==
  /\ call[th].at = "own"
  /\ owns' = TRUE
  /\ Goto(th, "body")
  /\ UNCHANGED <<objs, device, terminated>>

(* unlock() throws when the flag is not set, in the destructor of a         *)
(* lock_guard: the program terminates.                                      *)
UnlockTest(th) ==
  /\ call[th].at = "unlock"
  /\ IF owns THEN Goto(th, "release") /\ UNCHANGED terminated
     ELSE terminated' = TRUE /\ UNCHANGED call
  /\ UNCHANGED <<objs, lock_>>

(* Mutant: the mutex stays locked. *)
UnlockMutex_Forget(th) ==
  /\ call[th].at = "release"
  /\ Goto(th, "disown")
  /\ UNCHANGED <<objs, lock_, terminated>>

UnlockMutex(th) ==
  /\ call[th].at = "release"
  /\ device' = NoThread
  /\ Goto(th, "disown")
  /\ UNCHANGED <<objs, owns, terminated>>

UnlockOwn(th) ==
  /\ call[th].at = "disown"
  /\ owns' = FALSE
  /\ call' = [call EXCEPT ![th] = NoCall]
  /\ UNCHANGED <<objs, device, terminated>>

----------------------------------------------------------------------------
(* The bodies of the calls. *)

Body(th, op) == call[th].at = "body" /\ call[th].op = op

Work(th, at, todo) == call' = [call EXCEPT ![th].at = at, ![th].todo = todo]

(* What create_and_register_monitor() creates: each topic is followed by    *)
(* its reader.                                                              *)
TopicsAndReaders(d) ==
  [i \in 1 .. 2 * Len(TopicOrder) |->
     TopicObject(IF i % 2 = 1 THEN "topic" ELSE "reader", d, TopicOrder[(i + 1) \div 2])]

CreationOrder(d) ==
  <<Object("spy_participant", d), Object("participant_listener", d), Object("reader_listener", d),
    Object("participant", d), Object("subscriber", d), Object("spy_subscriber", d)>>
  \o TopicsAndReaders(d)

(* Mutant: the scope exit of the participant runs before that of the        *)
(* subscriber.                                                              *)
RollbackOrder_Swapped(d) ==
  <<Object("spy_subscriber", d)>> \o Each("reader", d) \o Each("topic", d)
  \o <<Object("participant", d), Object("subscriber", d), Object("reader_listener", d),
       Object("participant_listener", d), Object("spy_participant", d)>>

(* The scope exits, in the reverse of the order in which they are made.     *)
(* There is none of what was not created: its deletion does nothing.        *)
RollbackOrder(d) ==
  <<Object("spy_subscriber", d)>> \o Each("reader", d) \o Each("topic", d)
  \o <<Object("subscriber", d), Object("participant", d), Object("reader_listener", d),
       Object("participant_listener", d), Object("spy_participant", d)>>

(* Mutant: the listener of the readers is deleted first. *)
StopOrder_ListenerFirst(d) ==
  <<Object("reader_listener", d)>> \o Each("reader", d) \o <<Object("subscriber", d)>>
  \o Each("topic", d) \o <<Object("participant", d)>>
  \o SetToSeq(AllSpies("spy_reader", d)) \o <<Object("spy_subscriber", d)>>
  \o SetToSeq(AllSpies("spy_topic", d)) \o <<Object("spy_participant", d)>>
  \o SetToSeq(AllSpies("spy_listener", d)) \o <<Object("participant_listener", d)>>

(* What stop_monitor() deletes.  delete_contained_entities() is the part    *)
(* about the spy.                                                           *)
StopOrder(d) ==
  Each("reader", d) \o <<Object("subscriber", d)>> \o Each("topic", d) \o <<Object("participant", d)>>
  \o SetToSeq(AllSpies("spy_reader", d)) \o <<Object("spy_subscriber", d)>>
  \o SetToSeq(AllSpies("spy_topic", d)) \o <<Object("spy_participant", d), Object("reader_listener", d)>>
  \o SetToSeq(AllSpies("spy_listener", d)) \o <<Object("participant_listener", d)>>

(* init_monitor(): the database refuses a domain whose name it has. *)
InitMonitor(th) ==
  /\ Body(th, "init_monitor")
  /\ LET d == call[th].d
     IN  IF d \in domains THEN Goto(th, "unlock") /\ UNCHANGED objs
         ELSE /\ domains' = domains \cup {d}
              /\ monitors' = monitors \cup {d}
              /\ Work(th, "create", CreationOrder(d))
              /\ UNCHANGED <<objects, forgotten>>
  /\ UNCHANGED <<lock_, terminated>>

Create(th) ==
  /\ call[th].at = "create"
  /\ IF call[th].todo = <<>> THEN Goto(th, "unlock") /\ UNCHANGED objects
     ELSE /\ objects' = objects \cup {Head(call[th].todo)}
          /\ Work(th, "create", Tail(call[th].todo))
  /\ UNCHANGED <<domains, monitors, forgotten, lock_, terminated>>

(* DDS could not create an entity: an Error is thrown and the rollback      *)
(* begins.                                                                  *)
CreateFails(th) ==
  /\ call[th].at = "create"
  /\ call[th].todo # <<>>
  /\ Head(call[th].todo)[1] \notin {"participant_listener", "reader_listener"}
  /\ Work(th, "delete", RollbackOrder(call[th].d))
  /\ UNCHANGED <<objs, lock_, terminated>>

(* The next deletion.  At the end init_monitor() and stop_monitor() erase   *)
(* the monitor.  The domain stays in the database.                          *)
Delete(th) ==
  /\ call[th].at = "delete"
  /\ IF call[th].todo = <<>>
     THEN /\ monitors' = IF call[th].op = "stop_topic_spy" THEN monitors ELSE monitors \ {call[th].d}
          /\ Goto(th, "unlock")
          /\ UNCHANGED objects
     ELSE /\ objects' = Deleted(Head(call[th].todo))
          /\ Work(th, "delete", Tail(call[th].todo))
          /\ UNCHANGED monitors
  /\ UNCHANGED <<domains, forgotten, lock_, terminated>>

StopMonitor(th) ==
  /\ Body(th, "stop_monitor")
  /\ IF call[th].d \notin monitors THEN Goto(th, "unlock")
     ELSE Work(th, "delete", StopOrder(call[th].d))
  /\ UNCHANGED <<objs, lock_, terminated>>

(* start_topic_spy(): the topic (whose type may be unknown, an Error), the  *)
(* listener, which replaces one that a failed attempt left in the map, and  *)
(* the reader, which DDS may fail to create.                                *)
StartTopicSpy(th) ==
  /\ Body(th, "start_topic_spy")
  /\ LET d == call[th].d
         object(kind) == TopicObject(kind, d, call[th].u)
     IN  \/ /\ d \notin monitors \/ object("spy_reader") \in objects
            /\ UNCHANGED <<objects, forgotten>>
         \/ /\ d \in monitors /\ object("spy_topic") \notin objects
            /\ UNCHANGED <<objects, forgotten>>
         \/ /\ d \in monitors /\ object("spy_reader") \notin objects
            /\ forgotten' = forgotten \cup (objects \cap {object("spy_listener")})
            /\ \E reader \in {{}, {object("spy_reader")}} :
                 objects' = objects \cup {object("spy_topic"), object("spy_listener")} \cup reader
  /\ Goto(th, "unlock")
  /\ UNCHANGED <<domains, monitors, lock_, terminated>>

StopTopicSpy(th) ==
  /\ Body(th, "stop_topic_spy")
  /\ LET object(kind) == TopicObject(kind, call[th].d, call[th].u)
     IN  IF call[th].d \in monitors /\ {object("spy_topic"), object("spy_reader")} \subseteq objects
         THEN Work(th, "delete", <<object("spy_reader"), object("spy_topic"), object("spy_listener")>>)
         ELSE Goto(th, "unlock")
  /\ UNCHANGED <<objs, lock_, terminated>>

(* reset() takes no lock and is safe only while no other call runs.  The    *)
(* instance is replaced, with its database.                                 *)
reset ==
  /\ \A th \in Threads : call[th] = NoCall
  /\ monitors = {}
  /\ domains' = {}
  /\ UNCHANGED <<monitors, objects, forgotten, lock_, call, terminated>>

----------------------------------------------------------------------------
Step(th) ==
  \/ LockTest(th) \/ LockMutex(th) \/ LockOwn(th)
  \/ UnlockTest(th) \/ UnlockMutex(th) \/ UnlockOwn(th)
  \/ InitMonitor(th) \/ Create(th) \/ CreateFails(th) \/ Delete(th)
  \/ StopMonitor(th) \/ StartTopicSpy(th) \/ StopTopicSpy(th)

Next ==
  /\ ~terminated
  /\ \/ \E th \in Threads, d \in Domains :
          \/ \E op \in {"init_monitor", "stop_monitor"} : Call(th, op, d, NoTopic)
          \/ \E op \in {"start_topic_spy", "stop_topic_spy"}, u \in SpyTopics : Call(th, op, d, u)
     \/ \E th \in Threads : Step(th)
     \/ reset

(* Nobody has to call the backend; a thread inside a call goes on. *)
Spec == Init /\ [][Next]_vars /\ \A th \in Threads : WF_vars(~terminated /\ Step(th))

----------------------------------------------------------------------------
Inside(th) == call[th].at \in {"own", "body", "create", "delete", "unlock", "release"}

(* Types, and: a monitor's domain is in the database of the instance, also  *)
(* after reset() replaced it.                                               *)
MonitorsTypeOK ==
  /\ monitors \subseteq domains /\ domains \subseteq Domains
  /\ \A o \in objects \cup forgotten : o[2] \in Domains /\ o[3] \in Topics \cup SpyTopics \cup {NoTopic}
  /\ owns \in BOOLEAN /\ device \in Threads \cup {NoThread} /\ terminated \in BOOLEAN
  /\ \A th \in Threads : call[th].at \in {"idle", "lock", "wait", "own", "body", "create", "delete",
                                          "unlock", "release", "disown"}

(* The bodies of two calls never overlap, although the flag of the shared   *)
(* lock_ is wrong at times: the mutex below it decides.                     *)
MutualExclusion ==
  \A s, t \in Threads : Inside(s) /\ Inside(t) => s = t

(* When no call is at work on it, a domain has a complete monitor or none   *)
(* at all, after any failure of DDS and any sequence of calls; only a spy   *)
(* listener may be left behind, by the retry of a spy that failed.          *)
NothingLeaks ==
  \A d \in Domains : (\A th \in Threads : Inside(th) => call[th].d # d) =>
    IF d \in monitors THEN Range(CreationOrder(d)) \subseteq objects
    ELSE \A o \in objects : o[2] # d

(* No entity outlives the listener it calls from a thread of DDS, neither   *)
(* in a rollback nor when a monitor or a spy is stopped.                    *)
ListenersOutlive ==
  \A o \in objects : Calls(o) \subseteq objects

(* No call waits for ever: of threads that are all inside a call, one       *)
(* returns, and a thread returns once the others stop calling (a std::mutex *)
(* is not fair).  They return with or without an exception, unless the      *)
(* program terminates.                                                      *)
CallReturns ==
  /\ (\A th \in Threads : call[th] # NoCall) ~> (terminated \/ \E th \in Threads : call[th] = NoCall)
  /\ \A th \in Threads :
       <>[](\A other \in Threads \ {th} : call[other] = NoCall)
         => (call[th] # NoCall ~> terminated \/ call[th] = NoCall)

(* "Locks the instance for thread synchronization": a thread that finds the *)
(* lock taken waits for it.                                                 *)
LockSynchronizes ==
  ~terminated /\ \A th \in Threads : call[th].at = "lock" => ~owns

(* "BadParameter if a monitor is already created for the given domain", and *)
(* only then.                                                               *)
RefusedOnlyIfMonitored ==
  \A th \in Threads : Body(th, "init_monitor") /\ call[th].d \in domains => call[th].d \in monitors
============================================================================
