------------------------ MODULE ParticipantListener ------------------------
(***************************************************************************)
(* The discovery callbacks of StatisticsParticipantListener.  Each monitor *)
(* has a listener of its own, called from the threads of its DDS           *)
(* participant, and all of them share one entity queue and the data        *)
(* queues.  A callback stops the data consumer, pushes what it discovered  *)
(* to the entity queue, waits until that is processed and starts the data  *)
(* consumer again, so that a sample is not processed before the entity it  *)
(* is about exists in the database.                                        *)
(*                                                                         *)
(* The variables of DatabaseQueue are those of the data queue.  The second *)
(* data queue (monitor_service_status_data_queue_) is stopped and started  *)
(* by the same calls right after it: what holds of one holds of the other, *)
(* and one is modelled.  The consumer of the entity queue is never stopped *)
(* by a callback: that queue is an AbstractQueue that stays "running",     *)
(* which is what the proofs show of a DatabaseQueue used in this way.      *)
(***************************************************************************)
EXTENDS DatabaseQueue

CONSTANTS
  Callbacks,  (* threads that deliver discovery callbacks                  *)
  MaxCalls    (* bound: number of callbacks delivered                      *)

ASSUME ListenerAssumption ==
  /\ Callbacks \subseteq Controllers
  /\ MaxCalls \in Nat

VARIABLES
  listener_pc,  (* what each thread is doing in its callback               *)
  kind,         (* the callback each thread is in or was in last, "none"    *)
                (* before its first                                        *)
  calls,        (* number of callbacks delivered                           *)
  e_pushed, e_processed, e_barrier  (* the entity queue                    *)

entity == <<e_pushed, e_processed, e_barrier>>
lvars == <<vars, listener_pc, kind, calls, entity>>

Entity ==
  INSTANCE AbstractQueue
    WITH Clients <- Callbacks, MaxPush <- 2 * MaxCalls, state <- "running",
         pushed <- e_pushed, processed <- e_processed, barrier <- e_barrier

(* An update of a participant pushes one item, any other participant event  *)
(* a second one for its metatraffic writer.                                 *)
Kinds == {"participant", "participant_update", "reader", "writer"}

ListenerPC == {"idle", "stop", "stopping", "push", "metatraffic", "flush",
               "flushing", "start"}

ListenerTypeOK ==
  /\ TypeOK
  /\ listener_pc \in [Callbacks -> ListenerPC]
  /\ kind \in [Callbacks -> Kinds \cup {"none"}]
  /\ calls \in 0 .. MaxCalls
  /\ e_pushed \in 0 .. 2 * MaxCalls
  /\ e_processed \in Seq(1 .. e_pushed)
  /\ e_barrier \in [Callbacks -> -1 .. e_pushed]

ListenerInit ==
  /\ Init
  /\ listener_pc = [k \in Callbacks |-> "idle"]
  /\ kind = [k \in Callbacks |-> "none"]
  /\ calls = 0
  /\ Entity!Init

Goto(k, from, to) ==
  /\ listener_pc[k] = from
  /\ listener_pc' = [listener_pc EXCEPT ![k] = to]

----------------------------------------------------------------------------
(* on_data_reader_discovery() alone leaves the data consumer running.       *)
FirstStep(which) == IF which = "reader" THEN "push" ELSE "stop"

(* A callback that passes the filters for our own and the spy's entities.   *)
Discover(k, which) ==
  /\ calls < MaxCalls
  /\ calls' = calls + 1
  /\ kind' = [kind EXCEPT ![k] = which]
  /\ Goto(k, "idle", FirstStep(which))
  /\ UNCHANGED <<vars, entity>>

(* data_queue_->stop_consumer(), which returns at once when it is stopped.  *)
StopData(k) ==
  /\ \/ StopCall(k) /\ Goto(k, "stop", "stopping")
     \/ ~consuming /\ Goto(k, "stop", "push") /\ UNCHANGED vars
  /\ UNCHANGED <<kind, calls, entity>>

StoppingData(k) ==
  /\ \/ StopNotify(k) /\ UNCHANGED listener_pc
     \/ StopJoin(k) /\ Goto(k, "stopping", "push")
  /\ UNCHANGED <<kind, calls, entity>>

(* entity_queue_->push() of the entity, then of the metatraffic writer.     *)
PushEntity(k) ==
  /\ Entity!Push
  /\ \/ Goto(k, "push", IF kind[k] = "participant" THEN "metatraffic" ELSE "flush")
     \/ Goto(k, "metatraffic", "flush")
  /\ UNCHANGED <<vars, kind, calls>>

(* Mutant: the callback does not wait for the entity queue. *)
FlushEntity_NoWait(k) ==
  /\ Goto(k, "flush", "start")
  /\ UNCHANGED <<vars, kind, calls, entity>>

(* entity_queue_->flush(). *)
FlushEntity(k) ==
  /\ \/ Entity!FlushBegin(k) /\ Goto(k, "flush", "flushing")
     \/ Entity!FlushEnd(k) /\ Goto(k, "flushing", "start")
  /\ UNCHANGED <<vars, kind, calls>>

(* Mutant: the reader callback, which did not stop the consumer, does not   *)
(* start it; a writer callback whose stop_consumer() returned false neither.*)
StartData_OnlyOwn(k) ==
  /\ Goto(k, "start", "idle")
  /\ \/ kind[k] = "participant" /\ \E t \in Threads : start_consumer(k, t)
     \/ kind[k] # "participant" /\ UNCHANGED vars
     \/ consuming /\ UNCHANGED vars
  /\ UNCHANGED <<kind, calls, entity>>

(* data_queue_->start_consumer(), and the callback returns. *)
StartData(k) ==
  /\ Goto(k, "start", "idle")
  /\ \/ \E t \in Threads : start_consumer(k, t)
     \/ (consuming \/ consumer_thread # NoThread) /\ UNCHANGED vars
  /\ UNCHANGED <<kind, calls, entity>>

callback(k) ==
  \/ StopData(k) \/ StoppingData(k) \/ PushEntity(k) \/ FlushEntity(k) \/ StartData(k)

(* The consumer thread of the entity queue. *)
ProcessEntity == Entity!Process /\ UNCHANGED <<vars, listener_pc, kind, calls>>

(* The thread of a StatisticsReaderListener that receives a sample. *)
ReceiveData(c) == push(c) /\ UNCHANGED <<listener_pc, kind, calls, entity>>

(* The consumer thread of the data queue. *)
ProcessData(t) == run(t) /\ UNCHANGED <<listener_pc, kind, calls, entity>>

ListenerNext ==
  \/ \E k \in Callbacks : callback(k) \/ \E which \in Kinds : Discover(k, which)
  \/ \E c \in Clients \ Callbacks : ReceiveData(c)
  \/ \E t \in Threads : ProcessData(t)
  \/ ProcessEntity

ListenerSpec == ListenerInit /\ [][ListenerNext]_lvars

(* A thread inside a callback and the consumers keep running. *)
FairListenerSpec ==
  /\ ListenerSpec
  /\ \A k \in Callbacks : WF_lvars(callback(k))
  /\ \A t \in Threads : WF_lvars(ProcessData(t))
  /\ WF_lvars(ProcessEntity)

----------------------------------------------------------------------------
(* So far one monitor at most had a callback: which threads deliver the     *)
(* callbacks of how many monitors is up to the application.                 *)
Alone == \A j, k \in Callbacks : kind[j] # "none" /\ kind[k] # "none" => j = k

(* A callback that stopped the data queue is creating its entity, or is     *)
(* past the flush although the entity queue has not processed it.           *)
Creating(k) ==
  /\ kind[k] \notin {"none", "reader"}
  /\ \/ listener_pc[k] \in {"push", "metatraffic", "flush", "flushing"}
     \/ listener_pc[k] \in {"start", "idle"} /\ Len(e_processed) < e_pushed

(* "First stop the data queues until the new entity is created": from the   *)
(* stop in a participant or writer callback until the entity queue has      *)
(* processed its entity no sample is being processed by the data consumer.  *)
(* This fails: the callback of another monitor starts the consumer again.   *)
QuietForAll ==
  \A k \in Callbacks : Creating(k) => \A t \in Threads : ~Consuming(t)

(* The same, as long as one monitor had callbacks.                          *)
QuietWhileCreating == Alone => QuietForAll

(* However the callbacks overlap, the data queue is not left stopped: when  *)
(* none is running it has a consumer.                                       *)
NeverLeftStopped == (\A k \in Callbacks : listener_pc[k] = "idle") => consuming

(* Every callback returns to DDS, unless that of another monitor begins     *)
(* (see SingleConsumer for what may happen then).                           *)
CallbackReturns ==
  \A k \in Callbacks : (listener_pc[k] # "idle") ~> (listener_pc[k] = "idle" \/ ~Alone)
============================================================================
