--------------------------- MODULE MCMonitorService --------------------------
(* A small instance of MonitorService: a participant with one endpoint. *)
EXTENDS MonitorService

CONSTANTS p1, r1, w1

OneOwner == [e \in Endpoints |-> p1]
============================================================================
