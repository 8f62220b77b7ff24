--------------------------- MODULE ListenerProofs ---------------------------
(***************************************************************************)
(* Proofs about ParticipantListener.  Every step of it is a step of the    *)
(* data queue, or leaves the queue alone: what DatabaseQueueProofs shows   *)
(* for any number of controllers carries over to callbacks that overlap.   *)
(***************************************************************************)
EXTENDS ParticipantListener, DatabaseQueueProofs

----------------------------------------------------------------------------
(* The inductive invariants. *)

(* A stopped data queue was stopped by a callback that has not come to its  *)
(* start_consumer().                                                        *)
StoppedBy ==
  ~consuming => \E k \in Callbacks : listener_pc[k] \notin {"idle", "stop"}

(* A join in progress is the one of a callback in its stop_consumer(). *)
JoinInv ==
  \A c \in Clients :
     tmp_thread[c] # NoThread => c \in Callbacks /\ listener_pc[c] = "stopping"

(* The entities of a listener that is alone are processed except between    *)
(* its push and its flush, and the queue it stopped stays stopped.          *)
Served(k) ==
  /\ listener_pc[k] \in {"idle", "stop", "stopping", "start"} => Len(e_processed) >= e_pushed
  /\ listener_pc[k] = "flushing" => e_barrier[k] >= e_pushed
  /\ listener_pc[k] = "stopping" => ~consuming
  /\ kind[k] # "reader" /\ listener_pc[k] \in {"push", "metatraffic", "flush", "flushing"}
       => ~consuming

(* Who had no callback is in none, and nothing is pushed before the first.  *)
NoneYet ==
  /\ \A k \in Callbacks : kind[k] = "none" => listener_pc[k] = "idle"
  /\ (\A k \in Callbacks : kind[k] = "none") => Len(e_processed) >= e_pushed

EntityInv ==
  /\ NoneYet
  /\ Alone => \A k \in Callbacks : kind[k] # "none" => Served(k)

----------------------------------------------------------------------------
(* What a step of the listeners does to the data queue. *)

LEMMA QueueStep == [ListenerNext]_lvars => [Next]_vars
<1>. SUFFICES ASSUME [ListenerNext]_lvars PROVE [Next]_vars
  OBVIOUS
<1>. USE ListenerAssumption, QueueAssumption
<1>1. CASE UNCHANGED lvars
  BY <1>1 DEF lvars, vars
<1>2. ASSUME NEW k \in Callbacks, callback(k) PROVE [Next]_vars
  <2>. k \in Controllers
    OBVIOUS
  <2>1. CASE StopData(k)
    BY <2>1 DEF StopData, Next, Control
  <2>2. CASE StoppingData(k)
    BY <2>2 DEF StoppingData, Next, Control
  <2>3. CASE PushEntity(k) \/ FlushEntity(k)
    BY <2>3 DEF PushEntity, FlushEntity
  <2>4. CASE StartData(k)
    BY <2>4 DEF StartData, Next, Control
  <2>. QED BY <1>2, <2>1, <2>2, <2>3, <2>4 DEF callback
<1>3. ASSUME NEW k \in Callbacks, NEW which \in Kinds, Discover(k, which) PROVE [Next]_vars
  BY <1>3 DEF Discover
<1>4. ASSUME NEW c \in Clients, ReceiveData(c) PROVE [Next]_vars
  BY <1>4 DEF ReceiveData, Next, Call
<1>5. ASSUME NEW t \in Threads, ProcessData(t) PROVE [Next]_vars
  BY <1>5 DEF ProcessData, Next
<1>6. CASE ProcessEntity
  BY <1>6 DEF ProcessEntity
<1>. QED BY <1>1, <1>2, <1>3, <1>4, <1>5, <1>6 DEF ListenerNext

(* The queue as the listeners use it keeps its types and its owners. *)
LEMMA QueueInvariant == ListenerSpec => [](TypeOK /\ OwnerInv)
<1>1. ListenerInit => TypeOK /\ OwnerInv
  BY TypeInit, OwnerInit DEF ListenerInit
<1>2. TypeOK /\ OwnerInv /\ [ListenerNext]_lvars => (TypeOK /\ OwnerInv)'
  BY QueueStep, TypeStep, OwnerStep
<1>. QED BY <1>1, <1>2, PTL DEF ListenerSpec

(* However the callbacks of several monitors overlap, stop_consumer() and   *)
(* start_consumer() never join a consumer thread twice or abandon one.      *)
THEOREM CallbackThreadOwnership == ListenerSpec => []OneOwner
BY QueueInvariant, OwnerImpliesOneOwner, PTL

----------------------------------------------------------------------------
(* Types. *)

LEMMA EntityTypes ==
  ASSUME ListenerTypeOK
  PROVE  /\ e_pushed \in Nat /\ Len(e_processed) \in Nat
         /\ e_processed \in Seq(1 .. e_pushed)
         /\ \A k \in Callbacks : e_barrier[k] \in Int
<1>1. e_pushed \in 0 .. 2 * MaxCalls /\ e_processed \in Seq(1 .. e_pushed)
      /\ e_barrier \in [Callbacks -> -1 .. e_pushed]
  BY DEF ListenerTypeOK
<1>. QED BY <1>1, ListenerAssumption, LenProperties

LEMMA ListenerTypeInit == ListenerInit => ListenerTypeOK
<1>. SUFFICES ASSUME ListenerInit PROVE ListenerTypeOK
  OBVIOUS
<1>1. e_processed \in Seq(1 .. e_pushed)
  BY EmptySeq DEF ListenerInit, Entity!Init
<1>. QED
  BY <1>1, TypeInit, ListenerAssumption
  DEF ListenerInit, ListenerTypeOK, Entity!Init, Entity!NotFlushing, ListenerPC, Kinds

LEMMA ListenerTypeStep == ListenerTypeOK /\ [ListenerNext]_lvars => ListenerTypeOK'
<1>. SUFFICES ASSUME ListenerTypeOK, [ListenerNext]_lvars PROVE ListenerTypeOK'
  OBVIOUS
<1>. USE ListenerAssumption
<1>0. TypeOK'
  BY QueueStep, TypeStep DEF ListenerTypeOK
<1>1. CASE UNCHANGED lvars
  BY <1>0, <1>1 DEF ListenerTypeOK, lvars, entity
<1>2. ASSUME NEW k \in Callbacks, callback(k) PROVE ListenerTypeOK'
  <2>1. CASE StopData(k) \/ StoppingData(k) \/ StartData(k)
    BY <1>0, <2>1 DEF StopData, StoppingData, StartData, Goto, entity, ListenerTypeOK, ListenerPC
  <2>2. CASE PushEntity(k)
    <3>1. e_pushed' = e_pushed + 1 /\ e_pushed' \in 0 .. 2 * MaxCalls /\ e_processed' = e_processed
          /\ UNCHANGED <<e_barrier, kind, calls>>
      BY <2>2 DEF PushEntity, Entity!Push, ListenerTypeOK
    <3>2. e_processed' \in Seq(1 .. e_pushed')
      <4>1. 1 .. e_pushed \subseteq 1 .. e_pushed'
        BY <3>1 DEF ListenerTypeOK
      <4>. QED BY <3>1, <4>1, SeqDef DEF ListenerTypeOK
    <3>3. e_barrier' \in [Callbacks -> -1 .. e_pushed']
      BY <3>1 DEF ListenerTypeOK
    <3>4. listener_pc' \in [Callbacks -> ListenerPC]
      BY <2>2 DEF PushEntity, Goto, ListenerTypeOK, ListenerPC
    <3>. QED BY <1>0, <3>1, <3>2, <3>3, <3>4 DEF ListenerTypeOK
  <2>3. CASE FlushEntity(k)
    <3>1. e_barrier' \in [Callbacks -> -1 .. e_pushed]
      BY <2>3, EntityTypes
      DEF FlushEntity, Entity!FlushBegin, Entity!FlushEnd, Entity!NotFlushing, ListenerTypeOK
    <3>. QED
      BY <1>0, <2>3, <3>1
      DEF FlushEntity, Entity!FlushBegin, Entity!FlushEnd, Goto, ListenerTypeOK, ListenerPC
  <2>. QED BY <1>2, <2>1, <2>2, <2>3 DEF callback
<1>3. ASSUME NEW k \in Callbacks, NEW which \in Kinds, Discover(k, which) PROVE ListenerTypeOK'
  BY <1>0, <1>3 DEF Discover, Goto, FirstStep, entity, ListenerTypeOK, ListenerPC
<1>4. ASSUME NEW c \in Clients, ReceiveData(c) PROVE ListenerTypeOK'
  BY <1>0, <1>4 DEF ReceiveData, entity, ListenerTypeOK
<1>5. ASSUME NEW t \in Threads, ProcessData(t) PROVE ListenerTypeOK'
  BY <1>0, <1>5 DEF ProcessData, entity, ListenerTypeOK
<1>6. CASE ProcessEntity
  <2>1. e_processed' = Append(e_processed, Len(e_processed) + 1)
        /\ UNCHANGED <<e_pushed, e_barrier, listener_pc, kind, calls>>
        /\ Len(e_processed) < e_pushed
    BY <1>6 DEF ProcessEntity, Entity!Process
  <2>2. e_processed' \in Seq(1 .. e_pushed)
    <3>1. Len(e_processed) + 1 \in 1 .. e_pushed
      BY <2>1, EntityTypes
    <3>. QED BY <2>1, <3>1, EntityTypes, AppendProperties
  <2>. QED BY <1>0, <2>1, <2>2 DEF ListenerTypeOK
<1>. QED BY <1>1, <1>2, <1>3, <1>4, <1>5, <1>6 DEF ListenerNext

(* The types of the listener and of both its queues, for any number of      *)
(* monitors, callbacks and samples.                                         *)
THEOREM ListenerTypeCorrect == ListenerSpec => []ListenerTypeOK
BY ListenerTypeInit, ListenerTypeStep, PTL DEF ListenerSpec

----------------------------------------------------------------------------
(* The data queue is not left stopped. *)

LEMMA StoppedByStep ==
  ListenerTypeOK /\ OwnerInv /\ StoppedBy /\ [ListenerNext]_lvars => StoppedBy'
<1>. SUFFICES ASSUME ListenerTypeOK, OwnerInv, StoppedBy, [ListenerNext]_lvars PROVE StoppedBy'
  OBVIOUS
<1>1. CASE UNCHANGED lvars
  BY <1>1 DEF StoppedBy, lvars, vars
<1>2. ASSUME NEW k \in Callbacks, callback(k) PROVE StoppedBy'
  <2>. listener_pc \in [Callbacks -> ListenerPC]
    BY DEF ListenerTypeOK
  <2>1. CASE StopData(k)
    BY <2>1 DEF StopData, StopCall, Goto, StoppedBy
  <2>2. CASE StoppingData(k)
    BY <2>2 DEF StoppingData, StopNotify, StopJoin, Goto, StoppedBy
  <2>3. CASE PushEntity(k) \/ FlushEntity(k)
    BY <2>3 DEF PushEntity, FlushEntity, Goto, vars, StoppedBy
  <2>4. CASE StartData(k)
    <3>1. consuming'
      BY <2>4 DEF StartData, start_consumer, OwnerInv, vars
    <3>. QED BY <3>1 DEF StoppedBy
  <2>. QED BY <1>2, <2>1, <2>2, <2>3, <2>4 DEF callback
<1>3. ASSUME NEW k \in Callbacks, NEW which \in Kinds, Discover(k, which) PROVE StoppedBy'
  <2>. listener_pc \in [Callbacks -> ListenerPC]
    BY DEF ListenerTypeOK
  <2>. QED BY <1>3 DEF Discover, Goto, vars, StoppedBy
<1>4. ASSUME NEW c \in Clients, ReceiveData(c) PROVE StoppedBy'
  BY <1>4 DEF ReceiveData, push, StoppedBy
<1>5. ASSUME NEW t \in Threads, ProcessData(t) PROVE StoppedBy'
  BY <1>5 DEF ProcessData, run, RunStart, RunWake, Front, process_sample, Pop, StoppedBy
<1>6. CASE ProcessEntity
  BY <1>6 DEF ProcessEntity, vars, StoppedBy
<1>. QED BY <1>1, <1>2, <1>3, <1>4, <1>5, <1>6 DEF ListenerNext

(* However many callbacks overlap, stop and start the shared data queue,    *)
(* when none is running the queue has a consumer again.                     *)
THEOREM DataQueueRestarted == ListenerSpec => []NeverLeftStopped
<1>1. ListenerInit => StoppedBy
  BY DEF ListenerInit, Init, StoppedBy
<1>2. StoppedBy => NeverLeftStopped
  BY DEF StoppedBy, NeverLeftStopped
<1>. QED
  BY <1>1, <1>2, StoppedByStep, ListenerTypeCorrect, QueueInvariant, PTL DEF ListenerSpec

----------------------------------------------------------------------------
(* With one monitor the data consumer is silent until the entity exists. *)

LEMMA JoinStep ==
  ListenerTypeOK /\ JoinInv /\ [ListenerNext]_lvars => JoinInv'
<1>. SUFFICES ASSUME ListenerTypeOK, JoinInv, [ListenerNext]_lvars PROVE JoinInv'
  OBVIOUS
<1>. USE ListenerAssumption, QueueAssumption
<1>. /\ listener_pc \in [Callbacks -> ListenerPC]
     /\ tmp_thread \in [Clients -> Threads \cup {NoThread}]
  BY DEF ListenerTypeOK, TypeOK
<1>1. CASE UNCHANGED lvars
  BY <1>1 DEF JoinInv, lvars, vars, call
<1>2. ASSUME NEW k \in Callbacks, callback(k) PROVE JoinInv'
  <2>1. CASE StopData(k)
    BY <2>1 DEF StopData, StopCall, Goto, JoinInv, vars, call
  <2>2. CASE StoppingData(k)
    BY <2>2 DEF StoppingData, StopNotify, StopJoin, Goto, JoinInv
  <2>3. CASE PushEntity(k) \/ FlushEntity(k)
    BY <2>3 DEF PushEntity, FlushEntity, Goto, vars, call, JoinInv
  <2>4. CASE StartData(k)
    BY <2>4 DEF StartData, start_consumer, Goto, vars, call, JoinInv
  <2>. QED BY <1>2, <2>1, <2>2, <2>3, <2>4 DEF callback
<1>3. ASSUME NEW k \in Callbacks, NEW which \in Kinds, Discover(k, which) PROVE JoinInv'
  BY <1>3 DEF Discover, Goto, vars, call, JoinInv
<1>4. ASSUME NEW c \in Clients, ReceiveData(c) PROVE JoinInv'
  BY <1>4 DEF ReceiveData, push, call, JoinInv
<1>5. ASSUME NEW t \in Threads, ProcessData(t) PROVE JoinInv'
  BY <1>5 DEF ProcessData, run, RunStart, RunWake, Front, process_sample, Pop, call, JoinInv
<1>6. CASE ProcessEntity
  BY <1>6 DEF ProcessEntity, vars, call, JoinInv
<1>. QED BY <1>1, <1>2, <1>3, <1>4, <1>5, <1>6 DEF ListenerNext

LEMMA ListenerTypes ==
  ASSUME ListenerTypeOK
  PROVE  /\ listener_pc \in [Callbacks -> ListenerPC]
         /\ kind \in [Callbacks -> Kinds \cup {"none"}]
         /\ e_barrier \in [Callbacks -> -1 .. e_pushed]
         /\ e_pushed \in Nat /\ Len(e_processed) \in Nat
BY EntityTypes DEF ListenerTypeOK

(* A step of a callback leaves its own listener served. *)
LEMMA ServedCallback ==
  ASSUME ListenerTypeOK, NEW k \in Callbacks, callback(k), Served(k)
  PROVE  Served(k)'
<1>. USE ListenerAssumption, ListenerTypes
<1>1. CASE StopData(k)
  BY <1>1 DEF StopData, StopCall, Goto, Served, entity, vars
<1>2. CASE StoppingData(k)
  BY <1>2 DEF StoppingData, StopNotify, StopJoin, Goto, Served, entity
<1>3. CASE PushEntity(k)
  BY <1>3 DEF PushEntity, Entity!Push, Goto, vars, Served
<1>4. CASE FlushEntity(k)
  BY <1>4 DEF FlushEntity, Entity!FlushBegin, Entity!FlushEnd, Entity!NotFlushing, Goto, vars, Served
<1>5. CASE StartData(k)
  BY <1>5 DEF StartData, Goto, entity, Served
<1>. QED BY <1>1, <1>2, <1>3, <1>4, <1>5 DEF callback

(* In a callback a thread is not idle, and no other thread is touched.      *)
LEMMA CallbackFrame ==
  ASSUME ListenerTypeOK, OwnerInv, JoinInv, NEW k \in Callbacks, callback(k)
  PROVE  /\ listener_pc[k] # "idle" /\ kind' = kind
         /\ \A j \in Callbacks : j # k => listener_pc'[j] = listener_pc[j]
<1>. USE ListenerAssumption, ListenerTypes
<1>1. CASE StopData(k)
  BY <1>1 DEF StopData, Goto
<1>2. CASE StoppingData(k)
  BY <1>2, QueueAssumption DEF StoppingData, StopNotify, Goto, JoinInv, OwnerInv
<1>3. CASE PushEntity(k) \/ FlushEntity(k) \/ StartData(k)
  BY <1>3 DEF PushEntity, FlushEntity, StartData, Goto
<1>. QED BY <1>1, <1>2, <1>3 DEF callback

LEMMA EntityStep ==
  ASSUME ListenerTypeOK, OwnerInv, JoinInv, EntityInv, [ListenerNext]_lvars
  PROVE  EntityInv'
<1>. USE ListenerAssumption, ListenerTypes
<1>1. CASE UNCHANGED lvars
  BY <1>1 DEF EntityInv, NoneYet, Served, Alone, lvars, vars, entity
<1>2. ASSUME NEW k \in Callbacks, callback(k) PROVE EntityInv'
  <2>1. /\ listener_pc[k] # "idle" /\ kind' = kind
        /\ \A j \in Callbacks : j # k => listener_pc'[j] = listener_pc[j]
    BY <1>2, CallbackFrame
  <2>2. kind[k] # "none"
    BY <2>1 DEF EntityInv, NoneYet
  <2>3. NoneYet'
    BY <2>1, <2>2 DEF EntityInv, NoneYet
  <2>4. ASSUME Alone', NEW j \in Callbacks, kind'[j] # "none" PROVE Served(j)'
    <3>1. Alone /\ j = k
      BY <2>1, <2>2, <2>4 DEF Alone
    <3>2. Served(k)
      BY <2>2, <3>1 DEF EntityInv
    <3>3. Served(k)'
      BY <1>2, <3>2, ServedCallback
    <3>. QED BY <3>1, <3>3
  <2>. QED BY <2>3, <2>4 DEF EntityInv
<1>3. ASSUME NEW k \in Callbacks, NEW which \in Kinds, Discover(k, which) PROVE EntityInv'
  <2>1. /\ kind' = [kind EXCEPT ![k] = which] /\ which # "none"
        /\ listener_pc[k] = "idle"
        /\ listener_pc' = [listener_pc EXCEPT ![k] = FirstStep(which)]
        /\ UNCHANGED <<consuming, e_pushed, e_processed, e_barrier>>
    BY <1>3 DEF Discover, Goto, Kinds, vars, entity
  <2>2. NoneYet'
    BY <2>1 DEF EntityInv, NoneYet
  <2>3. ASSUME Alone', NEW j \in Callbacks, kind'[j] # "none" PROVE Served(j)'
    <3>1. j = k /\ \A i \in Callbacks : i # k => kind[i] = "none"
      BY <2>1, <2>3 DEF Alone
    <3>2. Alone
      BY <3>1 DEF Alone
    <3>3. Len(e_processed) >= e_pushed
      BY <2>1, <3>1, <3>2 DEF EntityInv, NoneYet, Served
    <3>. QED BY <2>1, <3>1, <3>3 DEF Served, FirstStep, Kinds
  <2>. QED BY <2>2, <2>3 DEF EntityInv
<1>4. ASSUME NEW c \in Clients, ReceiveData(c) PROVE EntityInv'
  BY <1>4 DEF ReceiveData, push, entity, EntityInv, NoneYet, Served, Alone
<1>5. ASSUME NEW t \in Threads, ProcessData(t) PROVE EntityInv'
  BY <1>5 DEF ProcessData, run, RunStart, RunWake, Front, process_sample, Pop, entity, EntityInv,
              NoneYet, Served, Alone
<1>6. CASE ProcessEntity
  <2>1. Len(e_processed') = Len(e_processed) + 1 /\ UNCHANGED <<e_pushed, e_barrier>>
    BY <1>6, EntityTypes, AppendProperties DEF ProcessEntity, Entity!Process
  <2>. QED BY <1>6, <2>1 DEF ProcessEntity, vars, EntityInv, NoneYet, Served, Alone
<1>. QED BY <1>1, <1>2, <1>3, <1>4, <1>5, <1>6 DEF ListenerNext

LEMMA NoConsumer ==
  ASSUME ListenerTypeOK, OwnerInv, JoinInv, EntityInv
  PROVE  QuietWhileCreating
<1>. SUFFICES ASSUME Alone, NEW k \in Callbacks, Creating(k), NEW t \in Threads, Consuming(t)
              PROVE  FALSE
  BY DEF QuietWhileCreating, QuietForAll
<1>1. /\ kind[k] \notin {"none", "reader"} /\ Served(k)
      /\ listener_pc[k] \in {"push", "metatraffic", "flush", "flushing"}
  BY EntityTypes DEF Creating, EntityInv, Served
<1>2. ~consuming
  BY <1>1 DEF Served
<1>3. ASSUME NEW c \in Clients PROVE tmp_thread[c] # t
  BY <1>1, QueueAssumption DEF Alone, JoinInv, EntityInv, NoneYet
<1>. QED BY <1>2, <1>3, QueueAssumption DEF OwnerInv, Consuming

(* "First stop the data queues until the new entity is created": as long as *)
(* one monitor had callbacks no sample is processed between the stop in a   *)
(* callback and the creation of its entity, for any number of threads,      *)
(* callbacks and samples.  After a callback of a second it may be (README). *)
THEOREM QuietUntilCreated == ListenerSpec => []QuietWhileCreating
<1>1. ListenerInit => JoinInv /\ EntityInv
  <2>. SUFFICES ASSUME ListenerInit PROVE JoinInv /\ EntityInv
    OBVIOUS
  <2>1. Len(e_processed) >= e_pushed
    BY DEF ListenerInit, Entity!Init
  <2>. QED BY <2>1 DEF ListenerInit, Init, JoinInv, EntityInv, NoneYet
<1>2. ListenerTypeOK /\ OwnerInv /\ JoinInv /\ EntityInv /\ [ListenerNext]_lvars
        => (JoinInv /\ EntityInv)'
  BY JoinStep, EntityStep
<1>3. ListenerTypeOK /\ OwnerInv /\ JoinInv /\ EntityInv => QuietWhileCreating
  BY NoConsumer
<1>. QED
  BY <1>1, <1>2, <1>3, ListenerTypeCorrect, QueueInvariant, PTL DEF ListenerSpec
============================================================================
