------------------------------ MODULE MCAlerts ------------------------------
(* A small instance of Alerts. *)
EXTENDS Alerts

Alert(kind, host, user, topic) ==
  [kind |-> kind, domain |-> "d1", host_name |-> host, user_name |-> user, topic_name |-> topic,
   threshold |-> 1, time_between_triggers |-> 0, time_to_timeout |-> 1]

Endpoint(topic, triggers) ==
  [domain |-> "d1", host |-> "h1", user |-> "u1", topic |-> topic, triggers |-> triggers]

(* A filter on all three names, and none. *)
SomeAlerts == {Alert("NEW_DATA", "", "", ""), Alert("NO_DATA", "h1", "u1", "t1")}

(* A reader on the topic of the filter, a writer on another. *)
SomeEndpoints == {Endpoint("t1", "NO_DATA"), Endpoint("t2", "NEW_DATA")}

(* A filter on the topic alone. *)
TopicAlerts == {Alert("NEW_DATA", "", "", "t1")}
============================================================================
