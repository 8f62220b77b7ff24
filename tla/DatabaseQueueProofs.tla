------------------------ MODULE DatabaseQueueProofs ------------------------
(***************************************************************************)
(* Proofs about DatabaseQueue.  TypeOK and OneOwner hold however many      *)
(* clients stop and start the consumer.  The others need SingleController: *)
(* no two clients that do so.                                              *)
(***************************************************************************)
EXTENDS DatabaseQueue, SequenceTheorems, TLAPS

----------------------------------------------------------------------------
(* The inductive invariants. *)

(* Which client or handle owns which consumer thread. *)
OwnerInv ==
  /\ consuming <=> consumer_thread # NoThread
  /\ \A c \in Clients :
       tmp_thread[c] # NoThread <=> call_pc[c] \in {"notify", "join"}
  /\ \A c, d \in Clients :
       tmp_thread[c] # NoThread /\ tmp_thread[c] = tmp_thread[d] => c = d
  /\ \A c \in Clients : tmp_thread[c] # NoThread => tmp_thread[c] # consumer_thread
  /\ \A t \in Threads :
       run_pc[t] # "none" <=> t = consumer_thread \/ \E c \in Clients : tmp_thread[c] = t

(* With one controller there is at most one consumer thread. *)
OneThread ==
  /\ \A c \in Clients : tmp_thread[c] # NoThread => c \in Controllers
  /\ consuming => \A c \in Clients : tmp_thread[c] = NoThread
  /\ \A t, u \in Threads : run_pc[t] # "none" /\ run_pc[u] # "none" => t = u

(* The number of items popped. *)
Popped == IF \E t \in Threads : run_pc[t] = "pop"
          THEN Len(processed) - 1 ELSE Len(processed)

(* The foreground queue is empty unless a thread is consuming it. *)
ForegroundInv ==
  (foreground # <<>>) <=> \E t \in Threads : Consuming(t)

(* A consumer's reference names the first element. *)
ItemInv ==
  \A t \in Threads : run_pc[t] \in {"process", "pop"} => item[t] = foreground[1]

(* The two buffers hold the items after the popped ones, in order. *)
OrderInv ==
  /\ InOrderOnce
  /\ Popped \in Nat
  /\ Popped + Len(foreground) + Len(background) = pushed
  /\ \A i \in 1 .. Len(foreground) : foreground[i] = Popped + i
  /\ \A i \in 1 .. Len(background) : background[i] = Popped + Len(foreground) + i

(* A flush() past its first wait: what it waits for is in the background    *)
(* queue and the loop is still the one it saw, or has been swapped in.      *)
FlushInv ==
  \A c \in Clients :
     call_pc[c] = "flush" /\ last_loop[c] # -1 =>
        \/ mark[c] <= Popped + Len(foreground)
        \/ last_loop[c] = current_loop /\ foreground = <<>>

FifoInv == OneThread /\ ForegroundInv /\ ItemInv /\ OrderInv /\ FlushInv

----------------------------------------------------------------------------
(* Type correctness: every step of every thread keeps the state in TypeOK,  *)
(* current_loop_ in its range and the buffers made of pushed items or       *)
(* garbage included.                                                        *)

LEMMA TypeInit == Init => TypeOK
BY QueueAssumption DEF Init, TypeOK, RunPC, CallPC

LEMMA EmptyBuffer == <<>> \in Seq(0 .. pushed)
BY EmptySeq

LEMMA Lengths ==
  ASSUME TypeOK
  PROVE  /\ Len(foreground) \in Nat /\ DOMAIN foreground = 1 .. Len(foreground)
         /\ Len(background) \in Nat /\ DOMAIN background = 1 .. Len(background)
         /\ Len(processed) \in Nat /\ DOMAIN processed = 1 .. Len(processed)
         /\ pushed \in Nat
<1>1. /\ foreground \in Seq(0 .. pushed) /\ background \in Seq(0 .. pushed)
      /\ processed \in Seq(0 .. pushed) /\ pushed \in 0 .. MaxPush
  BY DEF TypeOK
<1>. QED BY <1>1, LenProperties

LEMMA EndLoopType ==
  ASSUME TypeOK, NEW t \in Threads, EndLoop(t)
  PROVE  /\ foreground' \in Seq(0 .. pushed)
         /\ background' \in Seq(0 .. pushed)
         /\ current_loop' \in 0 .. (Loops - 1)
         /\ run_pc' \in [Threads -> RunPC]
         /\ waiting' \subseteq Clients \cup Threads
<1>1. current_loop' \in 0 .. (Loops - 1)
  BY QueueAssumption DEF TypeOK, EndLoop, NextLoop
<1>2. run_pc' \in [Threads -> RunPC]
  BY DEF TypeOK, EndLoop, RunPC
<1>3. waiting' \subseteq Clients \cup Threads
  BY DEF TypeOK, EndLoop
<1>4. foreground' \in Seq(0 .. pushed) /\ background' \in Seq(0 .. pushed)
  BY EmptyBuffer DEF TypeOK, EndLoop, swap
<1>. QED BY <1>1, <1>2, <1>3, <1>4

LEMMA ConsumeAllType ==
  ASSUME TypeOK, NEW t \in Threads, consume_all(t)
  PROVE  /\ foreground' \in Seq(0 .. pushed)
         /\ background' \in Seq(0 .. pushed)
         /\ current_loop' \in 0 .. (Loops - 1)
         /\ run_pc' \in [Threads -> RunPC]
         /\ waiting' \subseteq Clients \cup Threads
<1>1. CASE background = <<>>
  BY <1>1, EndLoopType DEF consume_all
<1>2. CASE background # <<>>
  <2>1. foreground' \in Seq(0 .. pushed) /\ background' \in Seq(0 .. pushed)
    BY <1>2, EmptyBuffer DEF consume_all, TypeOK, swap
  <2>. QED BY <1>2, <2>1 DEF consume_all, TypeOK, RunPC
<1>. QED BY <1>1, <1>2

LEMMA TypeStep == TypeOK /\ [Next]_vars => TypeOK'
<1> SUFFICES ASSUME TypeOK, [Next]_vars PROVE TypeOK'
  OBVIOUS
<1> USE QueueAssumption
<1>1. ASSUME NEW c \in Clients, push(c) PROVE TypeOK'
  <2>0. /\ pushed' \in 0 .. MaxPush
        /\ pushed' = pushed + 1
        /\ 0 .. pushed \subseteq 0 .. pushed'
    BY <1>1 DEF push, TypeOK
  <2>1. background' \in Seq(0 .. pushed')
    BY <1>1, <2>0 DEF push, TypeOK
  <2>2. foreground' \in Seq(0 .. pushed') /\ processed' \in Seq(0 .. pushed')
    BY <1>1, <2>0 DEF push, TypeOK, consumer
  <2>3. item' \in [Threads -> 0 .. pushed'] /\ mark' \in [Clients -> 0 .. pushed']
    BY <1>1, <2>0 DEF push, TypeOK, consumer, call
  <2>. QED
    BY <1>1, <2>0, <2>1, <2>2, <2>3 DEF push, TypeOK, consumer, call
<1>2. ASSUME NEW c \in Clients, FlushCall(c) PROVE TypeOK'
  BY <1>2 DEF FlushCall, TypeOK, CallPC, buffers, consumer
<1>3. ASSUME NEW c \in Clients, FlushWait(c) PROVE TypeOK'
  BY <1>3 DEF FlushWait, FlushPredicate, TypeOK, CallPC, buffers, consumer
<1>4. ASSUME NEW c \in Clients, StopCall(c) PROVE TypeOK'
  BY <1>4 DEF StopCall, TypeOK, CallPC, buffers, consumer
<1>5. ASSUME NEW c \in Clients, StopNotify(c) PROVE TypeOK'
  BY <1>5 DEF StopNotify, TypeOK, CallPC, buffers, consumer
<1>6. ASSUME NEW c \in Clients, StopJoin(c) PROVE TypeOK'
  BY <1>6 DEF StopJoin, TypeOK, CallPC, RunPC, buffers
<1>7. ASSUME NEW c \in Clients, NEW t \in Threads, start_consumer(c, t) PROVE TypeOK'
  BY <1>7 DEF start_consumer, TypeOK, RunPC, buffers, call
<1>8. ASSUME NEW t \in Threads, RunStart(t) PROVE TypeOK'
  <2>1. consume_all(t)
    BY <1>8 DEF RunStart
  <2>. QED BY <1>8, <2>1, ConsumeAllType DEF RunStart, TypeOK, call
<1>9. ASSUME NEW t \in Threads, RunWake(t) PROVE TypeOK'
  <2>1. CASE consuming /\ ~both_empty
    BY <1>9, <2>1, ConsumeAllType DEF RunWake, TypeOK, call
  <2>2. CASE ~consuming
    BY <1>9, <2>2 DEF RunWake, TypeOK, call, buffers, RunPC
  <2>3. CASE consuming /\ both_empty
    BY <1>9, <2>3 DEF RunWake, TypeOK, call, buffers
  <2>. QED BY <2>1, <2>2, <2>3
<1>10. ASSUME NEW t \in Threads, Front(t) PROVE TypeOK'
  <2>1. (IF foreground # <<>> THEN Head(foreground) ELSE 0) \in 0 .. pushed
    BY DEF TypeOK
  <2>. QED BY <1>10, <2>1 DEF Front, TypeOK, RunPC, buffers, call
<1>11. ASSUME NEW t \in Threads, process_sample(t) PROVE TypeOK'
  <2>1. PICK i \in 0 .. pushed : processed' = Append(processed, i)
    BY <1>11 DEF process_sample, TypeOK
  <2>. QED BY <1>11, <2>1 DEF process_sample, TypeOK, RunPC, buffers, call
<1>12. ASSUME NEW t \in Threads, Pop(t) PROVE TypeOK'
  <2>1. CASE EndLoop(t)
    BY <1>12, <2>1, EndLoopType DEF Pop, TypeOK, call
  <2>2. CASE ~EndLoop(t)
    <3>1. /\ foreground' = IF foreground # <<>> THEN Tail(foreground) ELSE <<0>>
          /\ run_pc' = [run_pc EXCEPT ![t] = "front"]
          /\ UNCHANGED <<background, current_loop, waiting>>
      BY <1>12, <2>2 DEF Pop
    <3>2. foreground' \in Seq(0 .. pushed)
      <4>1. CASE foreground # <<>>
        BY <3>1, <4>1, HeadTailProperties DEF TypeOK
      <4>2. CASE foreground = <<>>
        <5>1. foreground' = <<0>> /\ 0 \in 0 .. pushed
          BY <3>1, <4>2 DEF TypeOK
        <5>. QED BY <5>1
      <4>. QED BY <4>1, <4>2
    <3>. QED BY <1>12, <3>1, <3>2 DEF Pop, TypeOK, RunPC, call
  <2>. QED BY <2>1, <2>2
<1>13. CASE UNCHANGED vars
  BY <1>13 DEF vars, TypeOK, buffers, consumer, call
<1>. QED
  BY <1>1, <1>2, <1>3, <1>4, <1>5, <1>6, <1>7, <1>8, <1>9, <1>10, <1>11, <1>12, <1>13
  DEF Next, Call, Control, run

(* TypeOK is an invariant, for any number of clients and controllers. *)
THEOREM TypeCorrect == Spec => []TypeOK
<1>. QED BY TypeInit, TypeStep, PTL DEF Spec

----------------------------------------------------------------------------
(* Ownership of the consumer threads. *)

(* What a step of run() does to the variables OwnerInv is about. *)
LEMMA RunKeepsThreads ==
  ASSUME TypeOK, NEW t \in Threads, run(t)
  PROVE  /\ run_pc[t] # "none"
         /\ run_pc' \in [Threads -> RunPC]
         /\ run_pc'[t] # "none"
         /\ \A u \in Threads : u # t => run_pc'[u] = run_pc[u]
         /\ UNCHANGED <<consuming, consumer_thread, tmp_thread, call_pc>>
<1>1. ASSUME NEW pc \in RunPC \ {"none"}, run_pc' = [run_pc EXCEPT ![t] = pc]
      PROVE  /\ run_pc' \in [Threads -> RunPC]
             /\ run_pc'[t] # "none"
             /\ \A u \in Threads : u # t => run_pc'[u] = run_pc[u]
  BY <1>1 DEF TypeOK
<1>2. EndLoop(t) => \E pc \in RunPC \ {"none"} : run_pc' = [run_pc EXCEPT ![t] = pc]
  BY DEF EndLoop, RunPC
<1>3. consume_all(t) => \E pc \in RunPC \ {"none"} : run_pc' = [run_pc EXCEPT ![t] = pc]
  BY <1>2 DEF consume_all, RunPC
<1>4. CASE RunStart(t)
  BY <1>1, <1>3, <1>4 DEF RunStart, call
<1>5. CASE RunWake(t)
  <2>1. CASE UNCHANGED run_pc
    BY <1>5, <2>1 DEF RunWake, call, TypeOK
  <2>2. CASE run_pc' = [run_pc EXCEPT ![t] = "end"]
    BY <1>1, <1>5, <2>2 DEF RunWake, call, RunPC
  <2>3. CASE consume_all(t)
    BY <1>1, <1>3, <1>5, <2>3 DEF RunWake, call
  <2>. QED BY <1>5, <2>1, <2>2, <2>3 DEF RunWake
<1>6. CASE Front(t)
  BY <1>1, <1>6 DEF Front, call, RunPC
<1>7. CASE process_sample(t)
  BY <1>1, <1>7 DEF process_sample, call, RunPC
<1>8. CASE Pop(t)
  <2>1. \E pc \in RunPC \ {"none"} : run_pc' = [run_pc EXCEPT ![t] = pc]
    BY <1>2, <1>8 DEF Pop, RunPC
  <2>. QED BY <1>1, <1>8, <2>1 DEF Pop, call
<1>. QED BY <1>4, <1>5, <1>6, <1>7, <1>8 DEF run

LEMMA OwnerInit == Init => OwnerInv
BY QueueAssumption DEF Init, OwnerInv

LEMMA OwnerStep == TypeOK /\ OwnerInv /\ [Next]_vars => OwnerInv'
<1> SUFFICES ASSUME TypeOK, OwnerInv, [Next]_vars PROVE OwnerInv'
  OBVIOUS
<1> USE QueueAssumption
<1>1. ASSUME NEW c \in Clients, push(c) PROVE OwnerInv'
  BY <1>1 DEF push, OwnerInv, consumer, call
<1>2. ASSUME NEW c \in Clients, FlushCall(c) PROVE OwnerInv'
  BY <1>2 DEF FlushCall, OwnerInv, consumer, TypeOK
<1>3. ASSUME NEW c \in Clients, FlushWait(c) PROVE OwnerInv'
  BY <1>3 DEF FlushWait, OwnerInv, consumer, TypeOK
<1>4. ASSUME NEW c \in Clients, StopCall(c) PROVE OwnerInv'
  <2>1. /\ consumer_thread \in Threads
        /\ tmp_thread[c] = NoThread
        /\ tmp_thread' = [tmp_thread EXCEPT ![c] = consumer_thread]
        /\ consumer_thread' = NoThread
        /\ call_pc' = [call_pc EXCEPT ![c] = "notify"]
        /\ consuming' = FALSE
        /\ UNCHANGED run_pc
    BY <1>4 DEF StopCall, OwnerInv, TypeOK, consumer
  <2>2. \A t \in Threads :
          (\E d \in Clients : tmp_thread'[d] = t)
             <=> t = consumer_thread \/ \E d \in Clients : tmp_thread[d] = t
    BY <2>1 DEF TypeOK
  <2>3. \A d \in Clients : tmp_thread'[d] # NoThread <=> call_pc'[d] \in {"notify", "join"}
    BY <2>1 DEF TypeOK, OwnerInv
  <2>4. \A d, e \in Clients :
          tmp_thread'[d] # NoThread /\ tmp_thread'[d] = tmp_thread'[e] => d = e
    BY <2>1 DEF TypeOK, OwnerInv
  <2>. QED BY <2>1, <2>2, <2>3, <2>4 DEF OwnerInv
<1>5. ASSUME NEW c \in Clients, StopNotify(c) PROVE OwnerInv'
  BY <1>5 DEF StopNotify, OwnerInv, consumer, TypeOK
<1>6. ASSUME NEW c \in Clients, StopJoin(c) PROVE OwnerInv'
  <2>1. PICK t \in Threads : t = tmp_thread[c]
    BY <1>6 DEF StopJoin, OwnerInv, TypeOK
  <2>2. /\ run_pc' = [run_pc EXCEPT ![t] = "none"]
        /\ tmp_thread' = [tmp_thread EXCEPT ![c] = NoThread]
        /\ call_pc' = [call_pc EXCEPT ![c] = "idle"]
        /\ UNCHANGED <<consuming, consumer_thread>>
    BY <1>6, <2>1 DEF StopJoin
  <2>3. \A d \in Clients : tmp_thread'[d] # NoThread <=> call_pc'[d] \in {"notify", "join"}
    BY <2>2 DEF OwnerInv, TypeOK
  <2>4. \A d \in Clients : tmp_thread'[d] = IF d = c THEN NoThread ELSE tmp_thread[d]
    BY <2>2 DEF TypeOK
  <2>5. t # NoThread /\ t # consumer_thread
    BY <1>6, <2>1 DEF StopJoin, OwnerInv
  <2>6. ASSUME NEW u \in Threads
        PROVE  run_pc'[u] # "none" <=>
                 u = consumer_thread' \/ \E d \in Clients : tmp_thread'[d] = u
    <3>1. CASE u = t
      <4>1. \A d \in Clients : d # c => tmp_thread[d] # t
        BY <2>1, <2>5 DEF OwnerInv
      <4> QED
        BY <2>2, <2>4, <2>5, <3>1, <4>1 DEF TypeOK
    <3>2. CASE u # t
      <4>1. u # NoThread
        BY QueueAssumption
      <4>2. (\E d \in Clients : tmp_thread'[d] = u) <=> \E d \in Clients : tmp_thread[d] = u
        BY <2>1, <2>4, <3>2, <4>1
      <4> QED
        BY <2>2, <3>2, <4>2 DEF OwnerInv, TypeOK
    <3> QED
      BY <3>1, <3>2
  <2>. QED BY <2>2, <2>3, <2>4, <2>6 DEF OwnerInv
<1>7. ASSUME NEW c \in Clients, NEW t \in Threads, start_consumer(c, t) PROVE OwnerInv'
  <2>1. /\ consuming' = TRUE /\ consumer_thread' = t /\ consumer_thread = NoThread
        /\ run_pc' = [run_pc EXCEPT ![t] = "start"]
        /\ run_pc[t] = "none"
        /\ UNCHANGED <<tmp_thread, call_pc>>
    BY <1>7 DEF start_consumer, call
  <2>2. t # NoThread
    BY QueueAssumption
  <2>3. \A d \in Clients : tmp_thread[d] # t
    BY <2>1 DEF OwnerInv
  <2>4. \A u \in Threads :
          run_pc'[u] # "none" <=> u = consumer_thread' \/ \E d \in Clients : tmp_thread'[d] = u
    <3> SUFFICES ASSUME NEW u \in Threads
                 PROVE  run_pc'[u] # "none" <=>
                          u = consumer_thread' \/ \E d \in Clients : tmp_thread'[d] = u
      OBVIOUS
    <3>1. CASE u = t
      BY <2>1, <3>1 DEF TypeOK
    <3>2. CASE u # t
      <4>1. u # NoThread
        BY QueueAssumption
      <4>2. run_pc'[u] = run_pc[u]
        BY <2>1, <3>2 DEF TypeOK
      <4> QED
        BY <2>1, <3>2, <4>1, <4>2 DEF OwnerInv
    <3> QED
      BY <3>1, <3>2
  <2>. QED BY <2>1, <2>2, <2>3, <2>4 DEF OwnerInv
<1>8. ASSUME NEW t \in Threads, run(t) PROVE OwnerInv'
  BY <1>8, RunKeepsThreads DEF OwnerInv
<1>9. CASE UNCHANGED vars
  BY <1>9 DEF vars, OwnerInv, consumer, call
<1>. QED
  BY <1>1, <1>2, <1>3, <1>4, <1>5, <1>6, <1>7, <1>8, <1>9 DEF Next, Call, Control

LEMMA OwnerInvariant == Spec => [](TypeOK /\ OwnerInv)
BY TypeInit, TypeStep, OwnerInit, OwnerStep, PTL DEF Spec

LEMMA OwnerImpliesOneOwner == TypeOK /\ OwnerInv => OneOwner
<1> SUFFICES ASSUME TypeOK, OwnerInv, NEW t \in Threads
             PROVE  IF run_pc[t] = "none" THEN Owners(t) = {}
                    ELSE \E o \in Clients \cup {NoThread} : Owners(t) = {o}
  BY DEF OneOwner
<1>1. CASE run_pc[t] = "none"
  BY <1>1 DEF OwnerInv, Owners
<1>2. CASE run_pc[t] # "none" /\ t = consumer_thread
  <2>1. {c \in Clients : tmp_thread[c] = t} = {}
    BY <1>2, QueueAssumption DEF OwnerInv
  <2>2. Owners(t) = {NoThread}
    BY <1>2, <2>1 DEF Owners
  <2>. QED BY <1>2, <2>2
<1>3. CASE run_pc[t] # "none" /\ t # consumer_thread
  <2>1. PICK c \in Clients : tmp_thread[c] = t
    BY <1>3 DEF OwnerInv
  <2>2. Owners(t) = {c}
    BY <1>3, <2>1, QueueAssumption DEF OwnerInv, Owners
  <2>. QED BY <1>3, <2>2
<1>. QED BY <1>1, <1>2, <1>3

(* Whatever the interleaving of any number of stop_consumer() and           *)
(* start_consumer() calls, no thread is joined twice and none is orphaned.  *)
THEOREM ThreadOwnership == Spec => []OneOwner
BY OwnerInvariant, OwnerImpliesOneOwner, PTL

----------------------------------------------------------------------------
(* Order and completeness, with one controller. *)

LEMMA OneThreadStep ==
  ASSUME SingleController, TypeOK, OwnerInv, OneThread, [Next]_vars
  PROVE  OneThread'
<1> USE QueueAssumption
<1>1. ASSUME NEW c \in Clients, push(c) PROVE OneThread'
  BY <1>1 DEF push, OneThread, consumer, call
<1>2. ASSUME NEW c \in Clients, FlushCall(c) PROVE OneThread'
  BY <1>2 DEF FlushCall, OneThread, consumer
<1>3. ASSUME NEW c \in Clients, FlushWait(c) PROVE OneThread'
  BY <1>3 DEF FlushWait, OneThread, consumer
<1>4. ASSUME NEW c \in Controllers, StopCall(c) PROVE OneThread'
  BY <1>4 DEF StopCall, OneThread, consumer, TypeOK
<1>5. ASSUME NEW c \in Controllers, StopNotify(c) PROVE OneThread'
  BY <1>5 DEF StopNotify, OneThread, consumer
<1>6. ASSUME NEW c \in Controllers, StopJoin(c) PROVE OneThread'
  BY <1>6 DEF StopJoin, OneThread, TypeOK
<1>7. ASSUME NEW c \in Controllers, NEW t \in Threads, start_consumer(c, t)
      PROVE  OneThread'
  <2>1. \A d \in Clients : tmp_thread[d] = NoThread
    BY <1>7 DEF start_consumer, OneThread, OwnerInv, SingleController
  <2>2. \A u \in Threads : run_pc[u] = "none"
    BY <1>7, <2>1 DEF start_consumer, OwnerInv
  <2>. QED BY <1>7, <2>1, <2>2 DEF start_consumer, OneThread, call, TypeOK
<1>8. ASSUME NEW t \in Threads, run(t) PROVE OneThread'
  <2>1. \A u \in Threads : u # t => run_pc'[u] = "none"
    BY <1>8, RunKeepsThreads DEF OneThread, TypeOK
  <2>. QED BY <1>8, <2>1, RunKeepsThreads DEF OneThread
<1>9. CASE UNCHANGED vars
  BY <1>9 DEF vars, OneThread, consumer, call
<1>. QED
  BY <1>1, <1>2, <1>3, <1>4, <1>5, <1>6, <1>7, <1>8, <1>9 DEF Next, Call, Control

(* Steps of the clients other than push() and flush() leave the data alone: *)
(* no thread enters or leaves the part of run() that touches it.            *)
LEMMA ControlKeepsData ==
  ASSUME FifoInv, OneThread',
         UNCHANGED <<foreground, background, processed, item, pushed, current_loop,
                     last_loop, mark>>,
         \A c \in Clients : call_pc'[c] = "flush" => call_pc[c] = "flush",
         \A t \in Threads : Consuming(t)' \/ Consuming(t) => run_pc'[t] = run_pc[t]
  PROVE  FifoInv'
<1>1. Popped' = Popped
  BY DEF Popped, Consuming
<1>2. ForegroundInv'
  BY DEF FifoInv, ForegroundInv, Consuming
<1>3. ItemInv'
  BY DEF FifoInv, ItemInv, Consuming
<1>4. OrderInv'
  BY <1>1 DEF FifoInv, OrderInv, InOrderOnce
<1>5. FlushInv'
  BY <1>1 DEF FifoInv, FlushInv
<1>. QED BY <1>2, <1>3, <1>4, <1>5 DEF FifoInv

(* Steps of the one consumer thread t, in terms of what they do to the      *)
(* buffers.                                                                 *)
LEMMA PoppedBy ==
  ASSUME OneThread, NEW t \in Threads, run_pc[t] # "none"
  PROVE  /\ Popped = IF run_pc[t] = "pop" THEN Len(processed) - 1 ELSE Len(processed)
         /\ ForegroundInv <=> ((foreground # <<>>) <=> Consuming(t))
<1>1. \A u \in Threads : u # t => run_pc[u] = "none"
  BY DEF OneThread
<1>2. Popped = IF run_pc[t] = "pop" THEN Len(processed) - 1 ELSE Len(processed)
  BY <1>1 DEF Popped
<1>3. (\E u \in Threads : Consuming(u)) <=> Consuming(t)
  BY <1>1 DEF Consuming
<1>. QED BY <1>2, <1>3 DEF ForegroundInv

LEMMA PoppedByNext ==
  ASSUME OneThread', NEW t \in Threads, run_pc'[t] # "none"
  PROVE  /\ Popped' = IF run_pc'[t] = "pop" THEN Len(processed') - 1 ELSE Len(processed')
         /\ ForegroundInv' <=> ((foreground' # <<>>) <=> Consuming(t)')
<1>1. \A u \in Threads : u # t => run_pc'[u] = "none"
  BY DEF OneThread
<1>2. Popped' = IF run_pc'[t] = "pop" THEN Len(processed') - 1 ELSE Len(processed')
  BY <1>1 DEF Popped
<1>3. (\E u \in Threads : Consuming(u)') <=> Consuming(t)'
  BY <1>1 DEF Consuming
<1>. QED BY <1>2, <1>3 DEF ForegroundInv

(* Nothing is left of the batch in the foreground queue. *)
BatchDone ==
  /\ InOrderOnce
  /\ Len(processed) + Len(background) = pushed
  /\ \A i \in 1 .. Len(background) : background[i] = Len(processed) + i

DataInv == ForegroundInv /\ ItemInv /\ OrderInv /\ FlushInv

LEMMA SwapIn ==
  ASSUME TypeOK, OneThread', BatchDone, NEW t \in Threads,
         background # <<>>, swap, run_pc'[t] = "front",
         UNCHANGED <<processed, pushed, call_pc, mark>>
  PROVE  DataInv'
<1>1. Popped' = Len(processed) /\ ForegroundInv'
  BY PoppedByNext DEF swap, Consuming
<1>2. ItemInv'
  BY DEF ItemInv, OneThread
<1>3. Len(foreground') = Len(background) /\ Len(background') = 0
  BY DEF swap
<1>4. OrderInv'
  <2>1. InOrderOnce' /\ Popped' \in Nat
    BY <1>1 DEF BatchDone, InOrderOnce, TypeOK
  <2>2. Popped' + Len(foreground') + Len(background') = pushed'
    BY <1>1, <1>3 DEF BatchDone, TypeOK
  <2>3. \A i \in 1 .. Len(foreground') : foreground'[i] = Popped' + i
    BY <1>1, <1>3 DEF BatchDone, swap
  <2>4. \A i \in 1 .. Len(background') : background'[i] = Popped' + Len(foreground') + i
    BY <1>3
  <2>. QED BY <2>1, <2>2, <2>3, <2>4 DEF OrderInv
<1>5. FlushInv'
  <2>1. \A c \in Clients : mark'[c] <= Popped' + Len(foreground')
    BY <1>1, <1>3 DEF BatchDone, TypeOK
  <2>. QED BY <2>1 DEF FlushInv
<1>. QED BY <1>1, <1>2, <1>4, <1>5 DEF DataInv

LEMMA EndOfBatch ==
  ASSUME TypeOK, OneThread', BatchDone, NEW t \in Threads, EndLoop(t),
         UNCHANGED <<processed, pushed, call_pc, mark, last_loop>>,
         \A c \in Clients :
            call_pc[c] = "flush" /\ last_loop[c] # -1 => mark[c] <= Len(processed)
  PROVE  DataInv'
<1>1. CASE consuming /\ background # <<>>
  BY <1>1, SwapIn DEF EndLoop, TypeOK
<1>2. CASE ~consuming \/ background = <<>>
  <2>1. /\ run_pc'[t] \in {"wait", "end"}
        /\ foreground' = <<>>
        /\ background' = background
    BY <1>2 DEF EndLoop, TypeOK
  <2>2. Popped' = Len(processed) /\ ForegroundInv'
    BY <2>1, PoppedByNext DEF Consuming
  <2>3. ItemInv'
    BY <2>1 DEF ItemInv, OneThread
  <2>4. OrderInv'
    <3>1. InOrderOnce' /\ Popped' \in Nat /\ Len(foreground') = 0
      BY <2>1, <2>2 DEF BatchDone, InOrderOnce, TypeOK
    <3>. QED BY <2>1, <2>2, <3>1 DEF BatchDone, OrderInv, TypeOK
  <2>5. FlushInv'
    BY <2>1, <2>2 DEF FlushInv, TypeOK
  <2>. QED BY <2>2, <2>3, <2>4, <2>5 DEF DataInv
<1>. QED BY <1>1, <1>2

(* A consumer about to call consume_all() finds an empty foreground queue,  *)
(* so swap() has nothing to drop.                                           *)
LEMMA ConsumeAllData ==
  ASSUME TypeOK, OneThread, OneThread', DataInv, NEW t \in Threads, consume_all(t),
         run_pc[t] \in {"start", "wait"},
         UNCHANGED <<processed, pushed, call_pc, mark, last_loop>>
  PROVE  DataInv'
<1>1. foreground = <<>> /\ Popped = Len(processed)
  BY PoppedBy DEF DataInv, Consuming
<1>2. BatchDone
  <2>1. Len(foreground) = 0
    BY <1>1
  <2>. QED BY <1>1, <2>1 DEF DataInv, OrderInv, BatchDone, TypeOK
<1>3. CASE background # <<>>
  BY <1>2, <1>3, SwapIn DEF consume_all, TypeOK
<1>4. CASE background = <<>>
  <2>1. Len(processed) = pushed
    BY <1>2, <1>4 DEF BatchDone, TypeOK
  <2>. QED BY <1>2, <1>4, <2>1, EndOfBatch DEF consume_all, TypeOK
<1>. QED BY <1>3, <1>4

LEMMA PushData ==
  ASSUME TypeOK, TypeOK', OneThread', FifoInv, NEW c \in Clients, push(c)
  PROVE  FifoInv'
<1>1. Popped' = Popped /\ Popped \in Nat
  BY DEF Popped, push, consumer, FifoInv, OrderInv
<1>2. ForegroundInv' /\ ItemInv'
  BY DEF FifoInv, ForegroundInv, ItemInv, Consuming, push, consumer
<1>3. /\ Len(background') = Len(background) + 1
      /\ \A i \in 1 .. Len(background) : background'[i] = background[i]
      /\ background'[Len(background) + 1] = pushed + 1
      /\ pushed' = pushed + 1
      /\ UNCHANGED <<foreground, processed>>
  BY DEF push, TypeOK, consumer
<1>4. OrderInv'
  <2>0. Len(foreground) \in Nat /\ Len(background) \in Nat /\ pushed \in Nat
    BY Lengths
  <2>1. Popped + Len(foreground) + Len(background) = pushed
    BY DEF FifoInv, OrderInv
  <2>2. Popped' + Len(foreground') + Len(background') = pushed'
    BY <1>1, <1>3, <2>0, <2>1
  <2>3. \A i \in 1 .. Len(background') : background'[i] = Popped' + Len(foreground') + i
    <3> SUFFICES ASSUME NEW i \in 1 .. Len(background')
                 PROVE  background'[i] = Popped' + Len(foreground') + i
      OBVIOUS
    <3>1. CASE i \in 1 .. Len(background)
      BY <1>1, <1>3, <3>1 DEF FifoInv, OrderInv
    <3>2. CASE i = Len(background) + 1
      BY <1>1, <1>3, <2>0, <2>1, <3>2
    <3>. QED BY <1>3, <2>0, <3>1, <3>2
  <2>. QED BY <1>1, <1>3, <2>2, <2>3 DEF FifoInv, OrderInv, InOrderOnce
<1>5. FlushInv'
  BY <1>1, <1>3 DEF FifoInv, FlushInv, push, call
<1>. QED BY <1>2, <1>4, <1>5 DEF FifoInv

LEMMA FrontData ==
  ASSUME TypeOK, TypeOK', OneThread, OneThread', DataInv, NEW t \in Threads, Front(t)
  PROVE  DataInv'
<1>1. /\ run_pc'[t] = "process" /\ run_pc[t] = "front"
      /\ \A u \in Threads : u # t => run_pc'[u] = "none"
  BY DEF Front, TypeOK, OneThread
<1>2. foreground # <<>>
  BY <1>1, PoppedBy DEF DataInv, Consuming
<1>3. Popped' = Popped /\ ForegroundInv'
  BY <1>1, <1>2, PoppedBy, PoppedByNext DEF Front, Consuming, buffers
<1>4. ItemInv'
  <2>1. item'[t] = foreground[1]
    BY <1>2 DEF Front, TypeOK
  <2>. QED BY <1>1, <2>1 DEF ItemInv, Front, buffers
<1>5. OrderInv' /\ FlushInv'
  BY <1>3 DEF DataInv, OrderInv, FlushInv, InOrderOnce, Front, buffers, call
<1>. QED BY <1>3, <1>4, <1>5 DEF DataInv

(* The item process_sample() handles is the next one in push order. *)
LEMMA ProcessNext ==
  ASSUME TypeOK, OneThread, ForegroundInv, ItemInv, OrderInv, NEW t \in Threads,
         process_sample(t)
  PROVE  /\ foreground # <<>> /\ Popped = Len(processed) /\ item[t] = foreground[1]
         /\ Len(processed) < pushed
         /\ processed' = Append(processed, Len(processed) + 1)
<1>1. run_pc[t] = "process"
  BY DEF process_sample
<1>2. foreground # <<>> /\ Popped = Len(processed) /\ item[t] = foreground[1]
  BY <1>1, PoppedBy DEF Consuming, ItemInv
<1>3. Len(foreground) \in Nat \ {0} /\ Len(background) \in Nat
  BY <1>2, EmptySeq DEF TypeOK
<1>4. Valid(t) /\ item[t] = Len(processed) + 1
  BY <1>2, <1>3 DEF Valid, OrderInv, TypeOK
<1>5. Len(processed) < pushed
  BY <1>2, <1>3 DEF OrderInv
<1>. QED BY <1>2, <1>4, <1>5 DEF process_sample

LEMMA ProcessedData ==
  ASSUME TypeOK, TypeOK', OneThread, OneThread', DataInv, NEW t \in Threads,
         process_sample(t)
  PROVE  DataInv'
<1>1. /\ run_pc'[t] = "pop" /\ run_pc[t] = "process"
      /\ \A u \in Threads : u # t => run_pc'[u] = "none"
  BY DEF process_sample, TypeOK, OneThread
<1>2. /\ foreground # <<>> /\ Popped = Len(processed) /\ item[t] = foreground[1]
      /\ processed' = Append(processed, Len(processed) + 1)
  BY ProcessNext DEF DataInv
<1>5. /\ Len(processed') = Len(processed) + 1
      /\ \A i \in 1 .. Len(processed) : processed'[i] = processed[i]
      /\ processed'[Len(processed) + 1] = Len(processed) + 1
  BY <1>2 DEF TypeOK
<1>6. Popped' = Popped /\ ForegroundInv'
  BY <1>1, <1>2, <1>5, PoppedByNext DEF process_sample, Consuming, buffers, TypeOK
<1>7. ItemInv'
  BY <1>1, <1>2 DEF ItemInv, process_sample, buffers
<1>8. OrderInv'
  <2>1. InOrderOnce'
    <3>1. /\ Len(processed) \in Nat
          /\ DOMAIN processed = 1 .. Len(processed)
          /\ DOMAIN processed' = 1 .. Len(processed')
      BY DEF TypeOK
    <3>. QED BY <1>5, <3>1 DEF DataInv, OrderInv, InOrderOnce
  <2>. QED BY <1>6, <2>1 DEF DataInv, OrderInv, process_sample, buffers
<1>9. FlushInv'
  BY <1>6 DEF DataInv, FlushInv, process_sample, buffers, call
<1>. QED BY <1>6, <1>7, <1>8, <1>9 DEF DataInv

LEMMA PopData ==
  ASSUME TypeOK, TypeOK', OneThread, OneThread', DataInv, NEW t \in Threads, Pop(t)
  PROVE  DataInv'
<1>1. /\ run_pc[t] = "pop"
      /\ foreground # <<>>
      /\ Popped = Len(processed) - 1
      /\ Len(foreground) \in Nat \ {0}
  BY PoppedBy, EmptySeq DEF Pop, DataInv, Consuming, TypeOK
<1>2. /\ Tail(foreground) \in Seq(0 .. pushed)
      /\ Len(Tail(foreground)) = Len(foreground) - 1
      /\ \A i \in 1 .. Len(Tail(foreground)) : Tail(foreground)[i] = foreground[i + 1]
  BY <1>1 DEF TypeOK
<1>3. UNCHANGED <<processed, pushed, call_pc, mark, last_loop>>
  BY DEF Pop, call
<1>4. CASE Tail(foreground) = <<>>
  <2>1. EndLoop(t)
    BY <1>1, <1>4 DEF Pop
  <2>2. Len(foreground) = 1
    <3>1. Len(Tail(foreground)) = Len(<<>>) /\ Len(<<>>) = 0
      BY <1>4, Zenon, EmptySeq
    <3>2. Len(foreground) - 1 = 0
      BY <1>2, <3>1, Zenon
    <3>. QED BY <1>1, <3>2
  <2>3. BatchDone
    BY <1>1, <2>2 DEF DataInv, OrderInv, BatchDone, TypeOK
  <2>4. \A c \in Clients :
          call_pc[c] = "flush" /\ last_loop[c] # -1 => mark[c] <= Len(processed)
    BY <1>1, <2>2 DEF DataInv, FlushInv, TypeOK
  <2>. QED BY <1>3, <2>1, <2>3, <2>4, EndOfBatch
<1>5. CASE Tail(foreground) # <<>>
  <2>1. /\ foreground' = Tail(foreground)
        /\ run_pc' = [run_pc EXCEPT ![t] = "front"]
        /\ UNCHANGED <<background, current_loop, waiting>>
    BY <1>1, <1>5 DEF Pop
  <2>2. run_pc'[t] = "front" /\ \A u \in Threads : u # t => run_pc'[u] = "none"
    BY <1>1, <2>1 DEF TypeOK, OneThread
  <2>3. Popped' = Len(processed) /\ ForegroundInv'
    BY <1>3, <1>5, <2>1, <2>2, PoppedByNext DEF Consuming
  <2>4. ItemInv'
    BY <2>2 DEF ItemInv
  <2>5. Popped' + Len(foreground') = Popped + Len(foreground)
    BY <1>1, <1>2, <2>1, <2>3 DEF TypeOK
  <2>6. OrderInv'
    <3>1. \A i \in 1 .. Len(foreground') : foreground'[i] = Popped' + i
      BY <1>1, <1>2, <2>1, <2>3 DEF DataInv, OrderInv, TypeOK
    <3>2. Popped' \in Nat
      BY <2>3 DEF TypeOK
    <3>. QED BY <1>3, <2>1, <2>5, <3>1, <3>2 DEF DataInv, OrderInv, InOrderOnce
  <2>7. FlushInv'
    BY <1>1, <1>3, <2>1, <2>5 DEF DataInv, FlushInv
  <2>. QED BY <2>3, <2>4, <2>6, <2>7 DEF DataInv
<1>. QED BY <1>4, <1>5

LEMMA RunData ==
  ASSUME TypeOK, TypeOK', OneThread, OneThread', DataInv, NEW t \in Threads, run(t)
  PROVE  DataInv'
<1>1. CASE RunStart(t)
  <2>1. consume_all(t) /\ run_pc[t] = "start"
    BY <1>1 DEF RunStart
  <2>2. UNCHANGED <<processed, pushed, call_pc, mark, last_loop>>
    BY <1>1 DEF RunStart, call
  <2>. QED BY <2>1, <2>2, ConsumeAllData
<1>2. CASE RunWake(t)
  <2>0. run_pc[t] = "wait" /\ UNCHANGED <<processed, pushed, call_pc, mark, last_loop, item>>
    BY <1>2 DEF RunWake, call
  <2>1. CASE consume_all(t)
    BY <2>0, <2>1, ConsumeAllData
  <2>2. CASE ~consume_all(t)
    <3>1. /\ UNCHANGED <<foreground, background, current_loop>>
          /\ run_pc'[t] \in {"wait", "end"}
      BY <1>2, <2>0, <2>2 DEF RunWake, buffers, TypeOK
    <3>2. Popped' = Popped /\ ForegroundInv'
      BY <2>0, <3>1, PoppedBy, PoppedByNext DEF DataInv, Consuming
    <3>3. ItemInv'
      BY <3>1 DEF ItemInv, OneThread
    <3>4. OrderInv' /\ FlushInv'
      BY <2>0, <3>1, <3>2 DEF DataInv, OrderInv, FlushInv, InOrderOnce
    <3>. QED BY <3>2, <3>3, <3>4 DEF DataInv
  <2>. QED BY <2>1, <2>2
<1>. QED BY <1>1, <1>2, FrontData, ProcessedData, PopData DEF run

LEMMA FifoInit == Init => FifoInv
<1> SUFFICES ASSUME Init PROVE FifoInv
  OBVIOUS
<1>1. OneThread
  BY DEF Init, OneThread
<1>2. \A t \in Threads : run_pc[t] \in {"none", "start"}
  BY DEF Init
<1>3. Len(processed) = 0 /\ Len(foreground) = 0 /\ Len(background) = 0 /\ pushed = 0
  BY EmptySeq DEF Init
<1>4. Popped = 0
  BY <1>2, <1>3 DEF Popped
<1>5. ForegroundInv /\ ItemInv
  BY <1>2 DEF Init, ForegroundInv, ItemInv, Consuming
<1>6. InOrderOnce
  BY DEF Init, InOrderOnce
<1>7. OrderInv /\ FlushInv
  BY <1>3, <1>4, <1>6 DEF Init, OrderInv, FlushInv
<1>. QED BY <1>1, <1>5, <1>7 DEF FifoInv

LEMMA FifoStep ==
  ASSUME SingleController, TypeOK, TypeOK', OwnerInv, FifoInv, [Next]_vars
  PROVE  FifoInv'
<1>0. OneThread /\ OneThread' /\ DataInv
  BY OneThreadStep DEF FifoInv, DataInv
<1>1. ASSUME NEW c \in Clients, push(c) PROVE FifoInv'
  BY <1>0, <1>1, PushData
<1>2. ASSUME NEW c \in Clients, FlushCall(c) PROVE FifoInv'
  <2>1. Popped' = Popped /\ ForegroundInv' /\ ItemInv'
    BY <1>2 DEF FifoInv, Popped, ForegroundInv, ItemInv, Consuming, FlushCall, buffers, consumer
  <2>2. OrderInv'
    BY <1>2, <2>1 DEF FifoInv, OrderInv, InOrderOnce, FlushCall, buffers, consumer
  <2>3. FlushInv'
    BY <1>2, <2>1 DEF FifoInv, FlushInv, FlushCall, buffers, TypeOK
  <2>. QED BY <1>0, <2>1, <2>2, <2>3 DEF FifoInv
<1>3. ASSUME NEW c \in Clients, FlushWait(c) PROVE FifoInv'
  <2>1. Popped' = Popped /\ ForegroundInv' /\ ItemInv'
    BY <1>3 DEF FifoInv, Popped, ForegroundInv, ItemInv, Consuming, FlushWait, buffers, consumer
  <2>2. OrderInv'
    BY <1>3, <2>1 DEF FifoInv, OrderInv, InOrderOnce, FlushWait, buffers, consumer
  <2>3. FlushInv'
    BY <1>3, <2>1 DEF FifoInv, FlushInv, FlushWait, FlushPredicate, both_empty, buffers, TypeOK
  <2>. QED BY <1>0, <2>1, <2>2, <2>3 DEF FifoInv
<1>4. ASSUME NEW c \in Clients, StopCall(c) PROVE FifoInv'
  BY <1>0, <1>4, ControlKeepsData DEF StopCall, buffers, consumer, TypeOK
<1>5. ASSUME NEW c \in Clients, StopNotify(c) PROVE FifoInv'
  BY <1>0, <1>5, ControlKeepsData DEF StopNotify, buffers, consumer, TypeOK
<1>6. ASSUME NEW c \in Clients, StopJoin(c) PROVE FifoInv'
  <2>1. \A t \in Threads : Consuming(t)' \/ Consuming(t) => run_pc'[t] = run_pc[t]
    BY <1>6 DEF StopJoin, Consuming, TypeOK
  <2>. QED BY <1>0, <1>6, <2>1, ControlKeepsData DEF StopJoin, buffers, TypeOK
<1>7. ASSUME NEW c \in Clients, NEW t \in Threads, start_consumer(c, t) PROVE FifoInv'
  <2>1. \A u \in Threads : Consuming(u)' \/ Consuming(u) => run_pc'[u] = run_pc[u]
    BY <1>7 DEF start_consumer, Consuming, TypeOK
  <2>. QED BY <1>0, <1>7, <2>1, ControlKeepsData DEF start_consumer, buffers, call
<1>8. ASSUME NEW t \in Threads, run(t) PROVE FifoInv'
  BY <1>0, <1>8, RunData DEF FifoInv, DataInv
<1>9. CASE UNCHANGED vars
  <2>1. UNCHANGED <<foreground, background, processed, item, pushed, current_loop,
                    last_loop, mark, call_pc, run_pc>>
    BY <1>9 DEF vars, buffers, consumer, call
  <2>. QED BY <1>0, <2>1, ControlKeepsData
<1>. QED
  BY QueueAssumption, <1>1, <1>2, <1>3, <1>4, <1>5, <1>6, <1>7, <1>8, <1>9
  DEF Next, Call, Control

(* The inductive invariant of the queue with one controller. *)
LEMMA FifoInvariant ==
  ASSUME SingleController
  PROVE  Spec => [](TypeOK /\ OwnerInv /\ FifoInv)
<1>1. Init => TypeOK /\ OwnerInv /\ FifoInv
  BY TypeInit, OwnerInit, FifoInit
<1>2. TypeOK /\ OwnerInv /\ FifoInv /\ [Next]_vars => (TypeOK /\ OwnerInv /\ FifoInv)'
  BY TypeStep, OwnerStep, FifoStep
<1>. QED BY <1>1, <1>2, PTL DEF Spec

(* Exactly once and in order, for every number of pushes and clients. *)
THEOREM FifoDelivery ==
  ASSUME SingleController
  PROVE  Spec => []InOrderOnce
<1>1. FifoInv => InOrderOnce
  BY DEF FifoInv, OrderInv
<1>. QED BY <1>1, FifoInvariant, PTL

(* No item is dropped by swap() or pop(). *)
THEOREM NoItemLost ==
  ASSUME SingleController
  PROVE  Spec => []NothingLost
<1>1. TypeOK /\ FifoInv => NothingLost
  <2> SUFFICES ASSUME TypeOK, FifoInv, NEW n \in 1 .. pushed
               PROVE  \/ \E i \in DOMAIN processed : processed[i] = n
                      \/ \E i \in DOMAIN foreground : foreground[i] = n
                      \/ \E i \in DOMAIN background : background[i] = n
    BY DEF NothingLost
  <2>0. /\ Len(processed) \in Nat /\ DOMAIN processed = 1 .. Len(processed)
        /\ Len(foreground) \in Nat /\ DOMAIN foreground = 1 .. Len(foreground)
        /\ Len(background) \in Nat /\ DOMAIN background = 1 .. Len(background)
        /\ pushed \in Nat
    BY Lengths
  <2>1. /\ Popped \in Nat /\ Popped <= Len(processed)
        /\ Popped + Len(foreground) + Len(background) = pushed
    BY <2>0 DEF FifoInv, OrderInv, Popped
  <2>2. CASE n <= Popped
    <3>1. n \in DOMAIN processed
      BY <2>0, <2>1, <2>2
    <3>. QED BY <3>1 DEF FifoInv, OrderInv, InOrderOnce
  <2>3. CASE Popped < n /\ n <= Popped + Len(foreground)
    <3>1. n - Popped \in 1 .. Len(foreground)
      BY <2>0, <2>1, <2>3
    <3>2. foreground[n - Popped] = n
      BY <2>1, <3>1 DEF FifoInv, OrderInv
    <3>. QED BY <2>0, <3>1, <3>2
  <2>4. CASE Popped + Len(foreground) < n
    <3>1. n - (Popped + Len(foreground)) \in 1 .. Len(background)
      BY <2>0, <2>1, <2>4
    <3>2. background[n - (Popped + Len(foreground))] = n
      BY <2>0, <2>1, <3>1 DEF FifoInv, OrderInv
    <3>. QED BY <2>0, <3>1, <3>2
  <2>. QED BY <2>0, <2>1, <2>2, <2>3, <2>4
<1>. QED BY <1>1, FifoInvariant, PTL

(* The reference process_sample() holds without the mutex never dangles. *)
THEOREM FrontStaysValid ==
  ASSUME SingleController
  PROVE  Spec => []FrontValid
<1>1. TypeOK /\ FifoInv => FrontValid
  BY DEF TypeOK, FifoInv, ForegroundInv, ItemInv, FrontValid, Consuming, Valid
<1>. QED BY <1>1, FifoInvariant, PTL

(* What a returning flush() waited for has been popped. *)
LEMMA FlushMark ==
  ASSUME TypeOK, FifoInv, consuming, NEW c \in Clients, FlushWait(c),
         call_pc'[c] = "idle"
  PROVE  mark[c] <= Len(processed)
<1>1. /\ Len(processed) \in Nat /\ Len(foreground) \in Nat /\ Len(background) \in Nat
      /\ pushed \in Nat /\ mark[c] \in 0 .. pushed
      /\ Popped \in Nat /\ Popped <= Len(processed)
  BY Lengths DEF TypeOK, FifoInv, OrderInv, Popped
<1>2. CASE both_empty
  <2>1. Len(foreground) = 0 /\ Len(background) = 0
    BY <1>2 DEF both_empty
  <2>. QED BY <1>1, <2>1 DEF FifoInv, OrderInv
<1>3. CASE ~both_empty
  <2>1. /\ call_pc[c] = "flush"
        /\ foreground = <<>> /\ last_loop[c] # -1 /\ last_loop[c] # current_loop
    BY <1>3 DEF FlushWait, FlushPredicate, TypeOK
  <2>2. Len(foreground) = 0
    BY <2>1
  <2>. QED BY <1>1, <2>1, <2>2 DEF FifoInv, FlushInv
<1>. QED BY <1>2, <1>3

(* flush() is a barrier for all that was pushed before it. *)
THEOREM FlushIsBarrier ==
  ASSUME SingleController
  PROVE  Spec => FlushBarrier
<1>1. TypeOK /\ FifoInv /\ [Next]_vars =>
        [\A c \in Clients :
           call_pc[c] = "flush" /\ call_pc'[c] = "idle" /\ consuming
             => \A n \in 1 .. mark[c] : \E i \in DOMAIN processed : processed[i] = n]_vars
  <2> SUFFICES ASSUME TypeOK, FifoInv, Next, NEW c \in Clients,
                      call_pc[c] = "flush", call_pc'[c] = "idle", consuming,
                      NEW n \in 1 .. mark[c]
               PROVE  \E i \in DOMAIN processed : processed[i] = n
    OBVIOUS
  <2>1. FlushWait(c)
    <3>1. \A t \in Threads : ~run(t)
      BY RunKeepsThreads
    <3>2. ASSUME NEW d \in Clients, Call(d) PROVE FlushWait(c)
      BY <3>2 DEF Call, push, FlushCall, FlushWait, call, TypeOK
    <3>3. ASSUME NEW d \in Controllers, Control(d) PROVE FALSE
      BY <3>3, QueueAssumption
      DEF Control, StopCall, StopNotify, StopJoin, start_consumer, call, TypeOK
    <3>. QED BY <3>1, <3>2, <3>3 DEF Next
  <2>2. mark[c] <= Len(processed) /\ mark[c] \in Nat
    BY <2>1, FlushMark DEF TypeOK
  <2>3. n \in DOMAIN processed
    BY <2>2 DEF TypeOK
  <2>. QED BY <2>3 DEF FifoInv, OrderInv, InOrderOnce
<1>. QED BY <1>1, FifoInvariant, PTL DEF Spec, FlushBarrier

----------------------------------------------------------------------------
(* The queue with one controller implements AbstractQueue. *)

(* The mapped variables. *)
AState == IF consuming THEN "running"
          ELSE IF \E c \in Clients : tmp_thread[c] # NoThread
               THEN "stopping" ELSE "stopped"
ABarrier == [c \in Clients |-> IF call_pc[c] = "flush" THEN mark[c] ELSE -1]

LEMMA AbstractStutter ==
  ASSUME UNCHANGED <<consuming, pushed, processed>>, AState' = AState,
         ABarrier' = ABarrier
  PROVE  UNCHANGED Abstract!vars
BY DEF Abstract!vars, AState, ABarrier

LEMMA AbstractStep ==
  ASSUME SingleController, TypeOK, TypeOK', OwnerInv, OwnerInv', FifoInv, [Next]_vars
  PROVE  [Abstract!Next]_(Abstract!vars)
<1> USE DEF Abstract!vars
<1>1. ASSUME NEW c \in Clients, push(c) PROVE Abstract!Push
  <2>1. ABarrier' = ABarrier /\ AState' = AState
    BY <1>1 DEF push, ABarrier, AState, call
  <2>. QED BY <1>1, <2>1 DEF push, consumer, Abstract!Push, ABarrier, AState
<1>2. ASSUME NEW c \in Clients, FlushCall(c) PROVE Abstract!FlushBegin(c)
  <2>1. AState' = AState /\ AState = "running"
    BY <1>2 DEF FlushCall, AState, OwnerInv
  <2>2. ABarrier[c] = -1 /\ ABarrier' = [ABarrier EXCEPT ![c] = pushed]
    BY <1>2 DEF FlushCall, ABarrier, TypeOK
  <2>. QED
    BY <1>2, <2>1, <2>2
    DEF FlushCall, consumer, Abstract!FlushBegin, Abstract!NotFlushing, ABarrier, AState
<1>3. ASSUME NEW c \in Clients, FlushWait(c) PROVE [Abstract!FlushEnd(c)]_(Abstract!vars)
  <2>0. AState' = AState /\ UNCHANGED <<consuming, pushed, processed>>
    BY <1>3 DEF FlushWait, AState, consumer
  <2>1. CASE call_pc'[c] = "flush"
    <3>1. ABarrier' = ABarrier
      BY <1>3, <2>1 DEF FlushWait, ABarrier, TypeOK
    <3>. QED BY <2>0, <3>1, AbstractStutter
  <2>2. CASE call_pc'[c] # "flush"
    <3>1. /\ call_pc'[c] = "idle"
          /\ ABarrier[c] = mark[c] /\ mark[c] # -1
          /\ ABarrier' = [ABarrier EXCEPT ![c] = -1]
      <4>1. /\ call_pc[c] = "flush" /\ call_pc' = [call_pc EXCEPT ![c] = "idle"]
            /\ UNCHANGED mark
        BY <1>3, <2>2 DEF FlushWait, TypeOK
      <4>2. mark[c] \in Nat
        BY DEF TypeOK
      <4>3. call_pc'[c] = "idle" /\ \A d \in Clients : d # c => call_pc'[d] = call_pc[d]
        BY <4>1 DEF TypeOK
      <4>4. ABarrier' = [ABarrier EXCEPT ![c] = -1]
        BY <4>1, <4>3 DEF ABarrier
      <4>5. ABarrier[c] = mark[c]
        BY <4>1 DEF ABarrier
      <4>. QED BY <4>2, <4>3, <4>4, <4>5
    <3>2. Len(processed) >= mark[c] \/ AState # "running"
      <4>1. CASE consuming
        BY <1>3, <2>2, <3>1, <4>1, FlushMark
      <4>2. CASE ~consuming
        BY <4>2 DEF AState
      <4>. QED BY <4>1, <4>2
    <3>. QED
      BY <2>0, <3>1, <3>2 DEF Abstract!FlushEnd, Abstract!NotFlushing, ABarrier, AState
  <2>. QED BY <2>1, <2>2
<1>4. ASSUME NEW c \in Clients, StopCall(c) PROVE Abstract!Change("running", "stopping")
  <2>1. ABarrier' = ABarrier
    BY <1>4 DEF StopCall, ABarrier, TypeOK
  <2>2. AState = "running" /\ AState' = "stopping"
    BY <1>4, QueueAssumption DEF StopCall, AState, TypeOK, OwnerInv
  <2>. QED BY <1>4, <2>1, <2>2 DEF StopCall, Abstract!Change, ABarrier, AState, consumer
<1>5. ASSUME NEW c \in Clients, StopNotify(c) PROVE UNCHANGED Abstract!vars
  <2>1. ABarrier' = ABarrier /\ AState' = AState
    BY <1>5 DEF StopNotify, ABarrier, AState, TypeOK
  <2>. QED BY <1>5, <2>1, AbstractStutter DEF StopNotify, consumer
<1>6. ASSUME NEW c \in Controllers, StopJoin(c) PROVE Abstract!Change("stopping", "stopped")
  <2>1. ABarrier' = ABarrier
    BY <1>6 DEF StopJoin, ABarrier, TypeOK
  <2>2. ~consuming /\ tmp_thread[c] # NoThread
    BY <1>6, QueueAssumption DEF StopJoin, OwnerInv, FifoInv, OneThread
  <2>3. \A d \in Clients : tmp_thread'[d] = NoThread
    BY <1>6, QueueAssumption DEF StopJoin, FifoInv, OneThread, SingleController, TypeOK
  <2>4. AState = "stopping" /\ AState' = "stopped"
    BY <1>6, <2>2, <2>3, QueueAssumption DEF StopJoin, AState
  <2>. QED BY <1>6, <2>1, <2>4 DEF StopJoin, Abstract!Change, ABarrier, AState
<1>7. ASSUME NEW c \in Controllers, NEW t \in Threads, start_consumer(c, t)
      PROVE  Abstract!Change("stopped", "running")
  <2>1. ABarrier' = ABarrier
    BY <1>7 DEF start_consumer, ABarrier, call
  <2>2. \A d \in Clients : tmp_thread[d] = NoThread
    BY <1>7, QueueAssumption
    DEF start_consumer, OwnerInv, FifoInv, OneThread, SingleController
  <2>3. AState = "stopped" /\ AState' = "running"
    BY <1>7, <2>2 DEF start_consumer, AState
  <2>. QED BY <1>7, <2>1, <2>3 DEF start_consumer, Abstract!Change, ABarrier, AState
<1>8. ASSUME NEW t \in Threads, run(t), ~process_sample(t) PROVE UNCHANGED Abstract!vars
  <2>1. UNCHANGED <<consuming, tmp_thread, call_pc, mark, pushed, processed>>
    BY <1>8 DEF run, RunStart, RunWake, Front, Pop, call
  <2>2. ABarrier' = ABarrier /\ AState' = AState
    BY <2>1 DEF ABarrier, AState
  <2>. QED BY <2>1, <2>2, AbstractStutter
<1>9. ASSUME NEW t \in Threads, process_sample(t) PROVE Abstract!Process
  <2>1. UNCHANGED <<consuming, tmp_thread, call_pc, mark, pushed>>
    BY <1>9 DEF process_sample, call
  <2>2. ABarrier' = ABarrier /\ AState' = AState
    BY <2>1 DEF ABarrier, AState
  <2>3. AState # "stopped"
    BY <1>9, QueueAssumption DEF process_sample, OwnerInv, AState
  <2>4. Len(processed) < pushed /\ processed' = Append(processed, Len(processed) + 1)
    BY <1>9, ProcessNext DEF FifoInv
  <2>. QED BY <2>1, <2>2, <2>3, <2>4 DEF Abstract!Process, ABarrier, AState
<1>10. CASE UNCHANGED vars
  <2>1. UNCHANGED <<consuming, tmp_thread, call_pc, mark, pushed, processed>>
    BY <1>10 DEF vars, consumer, call
  <2>2. ABarrier' = ABarrier /\ AState' = AState
    BY <2>1 DEF ABarrier, AState
  <2>. QED BY <2>1, <2>2, AbstractStutter
<1>. QED
  BY QueueAssumption, <1>1, <1>2, <1>3, <1>4, <1>5, <1>6, <1>7, <1>8, <1>9, <1>10
  DEF Next, Call, Control, Abstract!Next

(* Every behaviour of the double buffered queue with one controller is one  *)
(* of the ideal queue: ordered exactly-once processing, a flush() that is a *)
(* barrier, and silence between stop_consumer() and start_consumer().       *)
THEOREM QueueRefinement ==
  ASSUME SingleController
  PROVE  Spec => ImplementsAbstractQueue
<1>1. Init => Abstract!Init
  BY DEF Init, Abstract!Init, Abstract!NotFlushing
<1>2. /\ TypeOK /\ OwnerInv /\ FifoInv /\ (TypeOK /\ OwnerInv /\ FifoInv)'
      /\ [Next]_vars
      => [Abstract!Next]_(Abstract!vars)
  BY AbstractStep
<1>. QED BY <1>1, <1>2, FifoInvariant, PTL
   DEF Spec, ImplementsAbstractQueue, Abstract!Spec

============================================================================
