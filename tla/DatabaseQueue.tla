--------------------------- MODULE DatabaseQueue ---------------------------
(***************************************************************************)
(* DatabaseQueue<T> of database_queue.hpp: the double buffered queue that  *)
(* hands discovery and statistics samples from the DDS callbacks to one    *)
(* consumer thread, which the callbacks stop and start again.              *)
(*                                                                         *)
(* Every action is one critical section of cv_mutex_, or one step taken    *)
(* outside it (the notification and the join of stop_consumer(), and       *)
(* process_sample()).  An item is the number of its push, so the order,    *)
(* the loss and the repetition of items are visible in `processed'.        *)
(*                                                                         *)
(* Calls that return without touching the state (start_consumer() on a     *)
(* started queue, stop_consumer() on a stopped one, flush() on a stopped   *)
(* one) are stuttering steps.                                              *)
(***************************************************************************)
EXTENDS Integers, Sequences

CONSTANTS
  Clients,      (* threads that call the public methods of the queue       *)
  Controllers,  (* the clients that also call stop/start_consumer()        *)
  Threads,      (* identities for the threads start_consumer() creates     *)
  NoThread,     (* the null std::unique_ptr<std::thread>                   *)
  Loops,        (* number of values of current_loop_ (an unsigned char)    *)
  MaxPush,      (* bound: how many items are pushed in a behaviour         *)
  MaxProcess    (* bound: how often process_sample() runs; out of reach    *)
                (* unless garbage gets processed                           *)

ASSUME QueueAssumption ==
  /\ Controllers \subseteq Clients
  /\ Clients \cap Threads = {}
  /\ NoThread \notin Threads
  /\ Loops \in Nat \ {0}
  /\ MaxPush \in Nat
  /\ MaxProcess \in Nat /\ MaxPush <= MaxProcess

VARIABLES
  foreground,       (* *foreground_queue_                                   *)
  background,       (* *background_queue_                                   *)
  consuming,        (* consuming_                                           *)
  consumer_thread,  (* consumer_thread_                                     *)
  current_loop,     (* current_loop_                                        *)
  run_pc,           (* where each consumer thread is in run()               *)
  item,             (* the element each consumer's front() reference names  *)
  call_pc,          (* the call each client is in                           *)
  last_loop,        (* last_loop of each client's flush(); -1 before i = 1  *)
  tmp_thread,       (* tmp_thread_ of each client's stop_consumer()         *)
  waiting,          (* the threads asleep in cv_.wait()                     *)
  pushed,           (* history: number of items pushed                      *)
  processed,        (* history: items given to process_sample(), in order   *)
  mark              (* history: value of `pushed' when the flush() began    *)

buffers == <<foreground, background>>
consumer == <<run_pc, item, processed>>
call == <<call_pc, last_loop, tmp_thread, mark>>
vars == <<buffers, consuming, consumer_thread, current_loop, consumer, call,
          waiting, pushed>>

RunPC == {"none", "start", "front", "process", "pop", "wait", "end"}
CallPC == {"idle", "flush", "notify", "join"}

TypeOK ==
  /\ foreground \in Seq(0 .. pushed)
  /\ background \in Seq(0 .. pushed)
  /\ consuming \in BOOLEAN
  /\ consumer_thread \in Threads \cup {NoThread}
  /\ current_loop \in 0 .. (Loops - 1)
  /\ run_pc \in [Threads -> RunPC]
  /\ item \in [Threads -> 0 .. pushed]
  /\ call_pc \in [Clients -> CallPC]
  /\ last_loop \in [Clients -> -1 .. (Loops - 1)]
  /\ tmp_thread \in [Clients -> Threads \cup {NoThread}]
  /\ waiting \subseteq Clients \cup Threads
  /\ pushed \in 0 .. MaxPush
  /\ processed \in Seq(0 .. pushed)
  /\ mark \in [Clients -> 0 .. pushed]

----------------------------------------------------------------------------
(* The constructor starts the consumer. *)
Init ==
  /\ foreground = <<>>
  /\ background = <<>>
  /\ consuming = TRUE
  /\ consumer_thread \in Threads
  /\ current_loop = 0
  /\ run_pc = [t \in Threads |-> IF t = consumer_thread THEN "start" ELSE "none"]
  /\ item = [t \in Threads |-> 0]
  /\ call_pc = [c \in Clients |-> "idle"]
  /\ last_loop = [c \in Clients |-> -1]
  /\ tmp_thread = [c \in Clients |-> NoThread]
  /\ waiting = {}
  /\ pushed = 0
  /\ processed = <<>>
  /\ mark = [c \in Clients |-> 0]

both_empty == foreground = <<>> /\ background = <<>>

----------------------------------------------------------------------------
(* The public methods. *)

(* Mutants: an item pushed to the wrong buffer; no notification. *)
push_Foreground(c) ==
  /\ call_pc[c] = "idle"
  /\ pushed < MaxPush
  /\ pushed' = pushed + 1
  /\ foreground' = Append(foreground, pushed + 1)
  /\ waiting' = {}
  /\ UNCHANGED <<background, consuming, consumer_thread, current_loop, consumer,
                 call>>

push_NoNotify(c) ==
  /\ call_pc[c] = "idle"
  /\ pushed < MaxPush
  /\ pushed' = pushed + 1
  /\ background' = Append(background, pushed + 1)
  /\ UNCHANGED <<foreground, consuming, consumer_thread, current_loop, consumer,
                 call, waiting>>

push(c) ==
  /\ call_pc[c] = "idle"
  /\ pushed < MaxPush
  /\ pushed' = pushed + 1
  /\ background' = Append(background, pushed + 1)
  /\ waiting' = {}
  /\ UNCHANGED <<foreground, consuming, consumer_thread, current_loop, consumer,
                 call>>

(* Mutants: one loop is not told from the next; the idle queue forgotten. *)
FlushPredicate_AnyLoop(last) == ~consuming \/ foreground = <<>>
FlushPredicate_NoBothEmpty(last) ==
  ~consuming \/ (foreground = <<>> /\ last # current_loop)

(* The predicate both cv_.wait() of flush() wait for. *)
FlushPredicate(last) ==
  \/ ~consuming
  \/ both_empty
  \/ foreground = <<>> /\ last # current_loop

(* flush() up to its first wait, which tests the predicate before sleeping: *)
(* the client enters the call awake and FlushWait does the test.            *)
FlushCall(c) ==
  /\ call_pc[c] = "idle"
  /\ consuming \/ consumer_thread # NoThread
  /\ call_pc' = [call_pc EXCEPT ![c] = "flush"]
  /\ last_loop' = [last_loop EXCEPT ![c] = -1]
  /\ mark' = [mark EXCEPT ![c] = pushed]
  /\ UNCHANGED <<buffers, consuming, consumer_thread, current_loop, consumer,
                 tmp_thread, waiting, pushed>>

(* The loop i = 0, 1 of flush(): a first wait that succeeds is followed by  *)
(* the test of the second one without releasing the mutex.                  *)
FlushWait(c) ==
  LET last == IF last_loop[c] = -1 /\ FlushPredicate(-1)
              THEN current_loop ELSE last_loop[c]
      done == FlushPredicate(last)
  IN  /\ call_pc[c] = "flush"
      /\ c \notin waiting
      /\ last_loop' = [last_loop EXCEPT ![c] = last]
      /\ call_pc' = [call_pc EXCEPT ![c] = IF done THEN "idle" ELSE "flush"]
      /\ waiting' = IF done THEN waiting ELSE waiting \cup {c}
      /\ UNCHANGED <<buffers, consuming, consumer_thread, current_loop, consumer,
                     tmp_thread, mark, pushed>>

(* Mutant: the handle is copied into tmp_thread_, not moved. *)
StopCall_Copy(c) ==
  /\ call_pc[c] = "idle"
  /\ consuming
  /\ consuming' = FALSE
  /\ tmp_thread' = [tmp_thread EXCEPT ![c] = consumer_thread]
  /\ call_pc' = [call_pc EXCEPT ![c] = "notify"]
  /\ UNCHANGED <<buffers, consumer_thread, current_loop, consumer, last_loop, mark,
                 waiting, pushed>>

(* stop_consumer(), inside its critical section. *)
StopCall(c) ==
  /\ call_pc[c] = "idle"
  /\ consuming
  /\ consuming' = FALSE
  /\ tmp_thread' = [tmp_thread EXCEPT ![c] = consumer_thread]
  /\ consumer_thread' = NoThread
  /\ call_pc' = [call_pc EXCEPT ![c] = "notify"]
  /\ UNCHANGED <<buffers, current_loop, consumer, last_loop, mark, waiting, pushed>>

(* Mutants: no notification; no join. *)
StopNotify_Silent(c) ==
  /\ call_pc[c] = "notify"
  /\ call_pc' = [call_pc EXCEPT ![c] = "join"]
  /\ UNCHANGED <<buffers, consuming, consumer_thread, current_loop, consumer,
                 last_loop, tmp_thread, mark, waiting, pushed>>

StopNotify_Detach(c) ==
  /\ call_pc[c] = "notify"
  /\ waiting' = {}
  /\ call_pc' = [call_pc EXCEPT ![c] = "idle"]
  /\ tmp_thread' = [tmp_thread EXCEPT ![c] = NoThread]
  /\ UNCHANGED <<buffers, consuming, consumer_thread, current_loop, consumer,
                 last_loop, mark, pushed>>

(* stop_consumer(), the notification after the mutex is released. *)
StopNotify(c) ==
  /\ call_pc[c] = "notify"
  /\ waiting' = {}
  /\ call_pc' = [call_pc EXCEPT ![c] = "join"]
  /\ UNCHANGED <<buffers, consuming, consumer_thread, current_loop, consumer,
                 last_loop, tmp_thread, mark, pushed>>

(* stop_consumer(), join() returning and the thread object being destroyed. *)
StopJoin(c) ==
  /\ call_pc[c] = "join"
  /\ run_pc[tmp_thread[c]] = "end"
  /\ run_pc' = [run_pc EXCEPT ![tmp_thread[c]] = "none"]
  /\ tmp_thread' = [tmp_thread EXCEPT ![c] = NoThread]
  /\ call_pc' = [call_pc EXCEPT ![c] = "idle"]
  /\ UNCHANGED <<buffers, consuming, consumer_thread, current_loop, item,
                 processed, last_loop, mark, waiting, pushed>>

(* start_consumer(), which creates the thread t. *)
start_consumer(c, t) ==
  /\ call_pc[c] = "idle"
  /\ ~consuming
  /\ consumer_thread = NoThread
  /\ run_pc[t] = "none"
  /\ consuming' = TRUE
  /\ consumer_thread' = t
  /\ run_pc' = [run_pc EXCEPT ![t] = "start"]
  /\ UNCHANGED <<buffers, current_loop, item, processed, call, waiting, pushed>>

----------------------------------------------------------------------------
(* run(), the consumer thread. *)

(* Mutant: the background queue is copied, not swapped. *)
swap_Copy == foreground' = background /\ UNCHANGED background

(* swap() drops what is in the foreground queue. *)
swap ==
  /\ foreground' = background
  /\ background' = <<>>

(* Mutant: the counter does not wrap around. *)
NextLoop_NoWrap == current_loop + 1

(* ++current_loop_ on an unsigned char. *)
NextLoop == (current_loop + 1) % Loops

(* The end of consume_all() with the mutex held, the test of the while of   *)
(* run(), and its wait, which does not sleep when there is something to     *)
(* consume: the next consume_all() then swaps before the mutex is released. *)
EndLoop(t) ==
  /\ current_loop' = NextLoop
  /\ \/ /\ ~consuming
        /\ run_pc' = [run_pc EXCEPT ![t] = "end"]
        /\ waiting' = {}
        /\ foreground' = <<>> /\ UNCHANGED background
     \/ /\ consuming
        /\ background # <<>>
        /\ run_pc' = [run_pc EXCEPT ![t] = "front"]
        /\ waiting' = {}
        /\ swap
     \/ /\ consuming
        /\ background = <<>>
        /\ run_pc' = [run_pc EXCEPT ![t] = "wait"]
        /\ waiting' = {t}
        /\ foreground' = <<>> /\ UNCHANGED background

(* consume_all() from its start to its first unlock or, when swap() brings  *)
(* nothing, to its end.                                                     *)
consume_all(t) ==
  \/ /\ background # <<>>
     /\ swap
     /\ run_pc' = [run_pc EXCEPT ![t] = "front"]
     /\ UNCHANGED <<current_loop, waiting>>
  \/ /\ background = <<>>
     /\ EndLoop(t)

RunStart(t) ==
  /\ run_pc[t] = "start"
  /\ consume_all(t)
  /\ UNCHANGED <<consuming, consumer_thread, item, processed, call, pushed>>

(* A consumer that is awake inside the wait of run() (notified). *)
RunWake(t) ==
  /\ run_pc[t] = "wait"
  /\ t \notin waiting
  /\ \/ /\ ~consuming
        /\ run_pc' = [run_pc EXCEPT ![t] = "end"]
        /\ UNCHANGED <<buffers, current_loop, waiting>>
     \/ /\ consuming
        /\ both_empty
        /\ waiting' = waiting \cup {t}
        /\ UNCHANGED <<buffers, current_loop, run_pc>>
     \/ /\ consuming
        /\ ~both_empty
        /\ consume_all(t)
  /\ UNCHANGED <<consuming, consumer_thread, item, processed, call, pushed>>

(* process_sample() begins, without cv_mutex_: front() yields a reference   *)
(* to the first element.  With an empty queue that is undefined, and the    *)
(* reference names garbage (0).                                             *)
Front(t) ==
  /\ run_pc[t] = "front"
  /\ item' = [item EXCEPT ![t] = IF foreground # <<>> THEN Head(foreground) ELSE 0]
  /\ run_pc' = [run_pc EXCEPT ![t] = "process"]
  /\ UNCHANGED <<buffers, consuming, consumer_thread, current_loop, processed,
                 call, waiting, pushed>>

(* The reference of t still names the first element of the queue. *)
Valid(t) == foreground # <<>> /\ Head(foreground) = item[t]

(* process_sample() ends: the sample has been handled.  Through a dangling  *)
(* reference anything may have been read.                                   *)
process_sample(t) ==
  /\ run_pc[t] = "process"
  /\ Len(processed) < MaxProcess
  /\ \E i \in (IF Valid(t) THEN {item[t]} ELSE 0 .. pushed) :
        processed' = Append(processed, i)
  /\ run_pc' = [run_pc EXCEPT ![t] = "pop"]
  /\ UNCHANGED <<buffers, consuming, consumer_thread, current_loop, item, call,
                 waiting, pushed>>

(* The mutex is taken again, pop(), and the test of the while of            *)
(* consume_all().  pop() on an empty std::queue is undefined: the queue may *)
(* then look empty, or hold garbage.                                        *)
Pop(t) ==
  /\ run_pc[t] = "pop"
  /\ \E rest \in (IF foreground # <<>> THEN {Tail(foreground)}
                                       ELSE {<<>>, <<0>>}) :
        \/ /\ rest = <<>>
           /\ EndLoop(t)
        \/ /\ rest # <<>>
           /\ foreground' = rest
           /\ run_pc' = [run_pc EXCEPT ![t] = "front"]
           /\ UNCHANGED <<background, current_loop, waiting>>
  /\ UNCHANGED <<consuming, consumer_thread, item, processed, call, pushed>>

----------------------------------------------------------------------------
Call(c) == push(c) \/ FlushCall(c) \/ FlushWait(c)

Control(c) ==
  \/ StopCall(c)
  \/ StopNotify(c)
  \/ StopJoin(c)
  \/ \E t \in Threads : start_consumer(c, t)

run(t) == RunStart(t) \/ RunWake(t) \/ Front(t) \/ process_sample(t) \/ Pop(t)

Next ==
  \/ \E c \in Clients : Call(c)
  \/ \E c \in Controllers : Control(c)
  \/ \E t \in Threads : run(t)

Spec == Init /\ [][Next]_vars

(* A thread that can run is run: consumers, and clients inside a call. *)
Fairness ==
  /\ \A t \in Threads : WF_vars(run(t))
  /\ \A c \in Clients : WF_vars(FlushWait(c))
  /\ \A c \in Controllers : WF_vars(StopNotify(c) \/ StopJoin(c))

FairSpec == Spec /\ Fairness

----------------------------------------------------------------------------
(* Correctness. *)

(* Samples are processed exactly once and in the order of their push(): the *)
(* i-th call of process_sample() gets the i-th item pushed.                 *)
InOrderOnce == \A i \in DOMAIN processed : processed[i] = i

(* An item that was pushed and not yet processed is still in one of the two *)
(* buffers: swap(), which clears the foreground queue, and pop() never drop *)
(* it.                                                                      *)
NothingLost ==
  \A n \in 1 .. pushed :
     \/ \E i \in DOMAIN processed : processed[i] = n
     \/ \E i \in DOMAIN foreground : foreground[i] = n
     \/ \E i \in DOMAIN background : background[i] = n

(* The queue is "MPSC (multi-producer, single-consumer)", as its class      *)
(* comment says: never two threads between swap() and the last pop().       *)
Consuming(t) == run_pc[t] \in {"front", "process", "pop"}
SingleConsumer == \A t, u \in Threads : Consuming(t) /\ Consuming(u) => t = u

(* The element process_sample() works on without cv_mutex_ stays at the     *)
(* head of the foreground queue until this thread pops it.                  *)
FrontValid ==
  \A t \in Threads :
     /\ run_pc[t] = "front" => foreground # <<>>
     /\ run_pc[t] \in {"process", "pop"} => Valid(t)

(* However stop_consumer() and start_consumer() overlap, every consumer     *)
(* thread has exactly one owner, consumer_thread_ or the tmp_thread_ of one *)
(* stop_consumer() call: no thread is joined twice and none is orphaned,    *)
(* the two failures the comment of stop_consumer() is about.                *)
Owners(t) ==
  {c \in Clients : tmp_thread[c] = t}
     \cup (IF consumer_thread = t THEN {NoThread} ELSE {})
OneOwner ==
  \A t \in Threads :
     IF run_pc[t] = "none" THEN Owners(t) = {}
     ELSE \E o \in Clients \cup {NoThread} : Owners(t) = {o}

(* flush() is a barrier: when it returns and the consumer was not stopped,  *)
(* everything pushed before the call has been through process_sample().     *)
FlushBarrier ==
  [][\A c \in Clients :
       call_pc[c] = "flush" /\ call_pc'[c] = "idle" /\ consuming
         => \A n \in 1 .. mark[c] : \E i \in DOMAIN processed : processed[i] = n
    ]_vars

(* "already empty", says flush() where it returns at once because the       *)
(* consumer is stopped, and its contract is "\post both_empty() returns     *)
(* true".                                                                   *)
FlushReturnsEmpty == ~consuming /\ consumer_thread = NoThread => both_empty

(* Every flush() returns, whatever calls come in between and although       *)
(* current_loop_ wraps around.                                              *)
FlushReturns == \A c \in Clients : call_pc[c] = "flush" ~> call_pc[c] = "idle"

(* Every stop_consumer() returns: the consumer sees consuming_ = false even *)
(* if it was about to sleep when it was set.                                *)
StopReturns == \A c \in Controllers : call_pc[c] = "notify" ~> call_pc[c] = "idle"

(* Every item is processed unless the consumer gets stopped. *)
Drained ==
  \A n \in 1 .. MaxPush :
     (pushed >= n) ~> (~consuming \/ \E i \in DOMAIN processed : processed[i] = n)

(* With one controller the queue implements AbstractQueue. *)
SingleController == \A c, d \in Controllers : c = d

Abstract ==
  INSTANCE AbstractQueue
    WITH state   <- IF consuming THEN "running"
                    ELSE IF \E c \in Clients : tmp_thread[c] # NoThread
                         THEN "stopping" ELSE "stopped",
         barrier <- [c \in Clients |-> IF call_pc[c] = "flush" THEN mark[c] ELSE -1]

ImplementsAbstractQueue == Abstract!Spec
============================================================================
