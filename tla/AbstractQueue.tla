--------------------------- MODULE AbstractQueue ---------------------------
(***************************************************************************)
(* What a DatabaseQueue promises the threads that use it, without buffers, *)
(* loop counters, condition variables or thread handles:                   *)
(*   - every item is processed once, in the order of the pushes;           *)
(*   - nothing is processed between the return of stop_consumer() and the  *)
(*     next start_consumer();                                              *)
(*   - flush() returns when all that was pushed before the call has been   *)
(*     processed, or when the consumer has been stopped.                   *)
(* Items are the numbers of their pushes.                                  *)
(***************************************************************************)
EXTENDS Integers, Sequences

CONSTANTS Clients, MaxPush

NotFlushing == -1

VARIABLES
  state,      (* of the consumer: "running", "stopping" or "stopped"        *)
  pushed,     (* number of items pushed                                     *)
  processed,  (* the items processed, in order                              *)
  barrier     (* for each client, the items its flush() waits for           *)

vars == <<state, pushed, processed, barrier>>

Init ==
  /\ state = "running"
  /\ pushed = 0
  /\ processed = <<>>
  /\ barrier = [c \in Clients |-> NotFlushing]

Push ==
  /\ pushed < MaxPush
  /\ pushed' = pushed + 1
  /\ UNCHANGED <<state, processed, barrier>>

Process ==
  /\ state # "stopped"
  /\ Len(processed) < pushed
  /\ processed' = Append(processed, Len(processed) + 1)
  /\ UNCHANGED <<state, pushed, barrier>>

FlushBegin(c) ==
  /\ barrier[c] = NotFlushing
  /\ state = "running"
  /\ barrier' = [barrier EXCEPT ![c] = pushed]
  /\ UNCHANGED <<state, pushed, processed>>

FlushEnd(c) ==
  /\ barrier[c] # NotFlushing
  /\ Len(processed) >= barrier[c] \/ state # "running"
  /\ barrier' = [barrier EXCEPT ![c] = NotFlushing]
  /\ UNCHANGED <<state, pushed, processed>>

Change(from, to) ==
  /\ state = from
  /\ state' = to
  /\ UNCHANGED <<pushed, processed, barrier>>

Next ==
  \/ Push
  \/ Process
  \/ \E c \in Clients : FlushBegin(c) \/ FlushEnd(c)
  \/ Change("running", "stopping")
  \/ Change("stopping", "stopped")
  \/ Change("stopped", "running")

Spec == Init /\ [][Next]_vars
============================================================================
