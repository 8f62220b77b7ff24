----------------------------- MODULE MCDataQueue -----------------------------
(* A small instance of DataQueue. *)
EXTENDS DataQueue

CONSTANTS p1, w1, r1, l1

SomeKinds == [e \in Entities |-> CASE e = p1 -> "PARTICIPANT" [] e = w1 -> "DATAWRITER"
                                   [] e = r1 -> "DATAREADER" [] OTHER -> "LOCATOR"]

Event(kind, source, remote) == [kind |-> kind, source |-> source, remote |-> remote]

AllEvents ==
  {Event("HISTORY2HISTORY_LATENCY", w1, r1), Event("NETWORK_LATENCY", p1, l1),
   Event("RTPS_SENT", p1, l1), Event("RTPS_SENT", w1, l1),
   Event("HEARTBEAT_COUNT", w1, NoKey), Event("ACKNACK_COUNT", r1, NoKey),
   Event("DISCOVERED_ENTITY", p1, p1)}
============================================================================
