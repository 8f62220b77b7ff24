------------------------------- MODULE Alerts -------------------------------
(***************************************************************************)
(* Alerts.  The consumer of the data queue inserts a sample and evaluates  *)
(* the alerts of its domain one after the other, and releases the mutex of *)
(* the database in the middle of that iteration to call a listener.  The   *)
(* watcher thread looks for alerts that timed out.  The application adds   *)
(* and removes alerts, and stops the watcher.                              *)
(*                                                                         *)
(* An action is a critical section of Database::mutex_, or a callback.  A  *)
(* time stamp is kept as its age, the time since then, up to MaxAge: what  *)
(* is older than every limit makes no difference.                          *)
(***************************************************************************)
EXTENDS Integers, Sequences, FiniteSets, SequencesExt, FiniteSetsExt

CONSTANTS
  Configs,          (* the parameters set_alert() is called with           *)
  Endpoints,        (* those that report: their domain, host, user, topic  *)
                    (* and the kind of alert their data triggers           *)
  Values,           (* what they report                                    *)
  MaxAlerts,        (* bound: number of calls of set_alert()               *)
  MaxAge,           (* bound: older than any limit of an alert             *)
  ConcurrentRemove  (* may an alert be removed during its own callback?    *)

ASSUME AlertsAssumption ==
  /\ MaxAlerts \in Nat /\ MaxAge \in Nat /\ ConcurrentRemove \in BOOLEAN
  /\ \A c \in Configs : c.time_between_triggers < MaxAge /\ c.time_to_timeout < MaxAge

VARIABLES
  alerts,     (* alerts_: for each identifier its parameters and two ages  *)
  next_id,    (* next_alert_id_                                            *)
  consumer,   (* the sample in work and the iteration over the alerts      *)
  watcher,    (* the watcher thread and the alerts it found timed out      *)
  stopper,    (* progress of stop_alert_watcher()                          *)
  known,      (* the endpoints in the database                             *)
  fate        (* history: is an alert "overdue", or "found" to be          *)

vars == <<alerts, next_id, consumer, watcher, stopper, known, fate>>

AlertIds == 1 .. MaxAlerts
NoWork == [at |-> "idle"]

Init ==
  /\ alerts = <<>>
  /\ next_id = 1
  /\ consumer = NoWork
  /\ watcher = [at |-> "waiting", timed_out |-> <<>>]
  /\ stopper = "none"
  /\ known = Endpoints
  /\ fate = [a \in AlertIds |-> "fine"]

InDomain(all, d) == {a \in DOMAIN all : all[a].config.domain = d}

----------------------------------------------------------------------------
(* What an AlertInfo decides. *)

(* entity_matches(): all three tests depend on host_name. *)
entity_matches(c, e) ==
  c.host_name # "" => /\ c.host_name = e.host
                      /\ c.user_name = e.user
                      /\ c.topic_name = e.topic

(* value_triggers(), with the comparisons of the two kinds of alert. *)
value_triggers(c, value) ==
  IF c.kind = "NEW_DATA" THEN value > 0 ELSE value < c.threshold

time_allows_trigger(info) == info.trigger_age > info.config.time_between_triggers

(* check_trigger_conditions() and trigger(): the timeout starts again for   *)
(* every sample of the alert's kind, before the endpoint is matched.        *)
Triggers(info, e, value) ==
  /\ entity_matches(info.config, e)
  /\ value_triggers(info.config, value)
  /\ time_allows_trigger(info)

Evaluated(info, e, value) ==
  IF Triggers(info, e, value) THEN [info EXCEPT !.timeout_age = 0, !.trigger_age = 0]
  ELSE [info EXCEPT !.timeout_age = 0]

(* Mutant: the time since the last trigger is compared too. *)
check_timeout_Recent(info) ==
  /\ info.config.kind = "NO_DATA" /\ info.timeout_age > info.config.time_to_timeout
  /\ info.trigger_age <= info.config.time_to_timeout

(* check_timeout(): only a NO_DATA alert has timeout_enabled. *)
check_timeout(info) ==
  info.config.kind = "NO_DATA" /\ info.timeout_age > info.config.time_to_timeout

----------------------------------------------------------------------------
(* The application. *)

set_alert(c) ==
  /\ next_id <= MaxAlerts
  /\ next_id' = next_id + 1
  /\ alerts' = [a \in DOMAIN alerts \cup {next_id} |->
                  IF a = next_id THEN [config |-> c, timeout_age |-> 0, trigger_age |-> 0]
                  ELSE alerts[a]]
  /\ UNCHANGED <<consumer, watcher, stopper, known, fate>>

(* remove_alert().  When the iterator of the consumer is at this alert it   *)
(* becomes invalid: the iteration goes on anywhere.                         *)
remove_alert(a) ==
  /\ a \in DOMAIN alerts
  /\ IF consumer.at = "calling" /\ consumer.pos = a
     THEN /\ ConcurrentRemove
          /\ \E p \in 0 .. MaxAlerts : consumer' = [consumer EXCEPT !.pos = p, !.due = @ \ {a}]
     ELSE consumer' = IF consumer.at = "idle" THEN consumer
                      ELSE [consumer EXCEPT !.due = @ \ {a}]
  /\ alerts' = [b \in DOMAIN alerts \ {a} |-> alerts[b]]
  /\ fate' = [fate EXCEPT ![a] = "fine"]
  /\ UNCHANGED <<next_id, watcher, stopper, known>>

(* clear_inactive_entities() erases an endpoint with its topic. *)
ClearEndpoint(e) ==
  /\ known' = known \ {e}
  /\ UNCHANGED <<alerts, next_id, consumer, watcher, stopper, fate>>

----------------------------------------------------------------------------
(* The consumer of the data queue. *)

(* Mutant: after a callback the iteration starts again. *)
Remaining_Restart(d, iteration) == InDomain(alerts, d)

(* What the iterator of a std::map has ahead of it. *)
Remaining(d, iteration) == {a \in InDomain(alerts, d) : a > iteration.pos}

(* trigger_alerts_of_kind_nts() until an alert triggers, for which the      *)
(* mutex is released, or until the end.  The names of the endpoint's topic, *)
(* user and host are read through references, which throw when they         *)
(* expired.  The alerts do not depend on each other: what is reached of     *)
(* those ahead is what comes up to the first that stops the iteration.      *)
(* Here an endpoint that was erased always throws; the code goes on as long *)
(* as its topic and its participant are still there.                        *)
Iterate(iteration) ==
  LET e == iteration.endpoint
      ahead == Remaining(e.domain, iteration)
      concerned == {a \in ahead : alerts[a].config.kind = e.triggers}
      stops == {a \in concerned : e \in known => Triggers(alerts[a], e, iteration.value)}
      reached == {a \in ahead : \A s \in stops : a < s \/ (a = s /\ e \in known)}
      evaluated == reached \cap concerned
  IN  /\ alerts' = [a \in DOMAIN alerts |->
                      IF a \in evaluated THEN Evaluated(alerts[a], e, iteration.value)
                      ELSE alerts[a]]
      /\ consumer' = [iteration EXCEPT
           !.at = IF stops = {} THEN "end" ELSE IF e \in known THEN "calling" ELSE "thrown",
           !.pos = Max(reached \cup {@}),
           !.seen = [a \in AlertIds |-> IF a \in reached THEN @[a] + 1 ELSE @[a]]]
      /\ fate' = [a \in AlertIds |-> IF a \in evaluated THEN "fine" ELSE fate[a]]

(* Database::insert() of a sample of data that alerts are about. *)
insert(e, value) ==
  /\ consumer.at = "idle"
  /\ e \in known
  /\ Iterate([at |-> "iterating", endpoint |-> e, value |-> value, pos |-> 0,
              seen |-> [a \in AlertIds |-> 0], due |-> InDomain(alerts, e.domain)])
  /\ UNCHANGED <<next_id, watcher, stopper, known>>

(* on_alert_triggered() returned: the mutex is taken again.  Without the    *)
(* monitor or the endpoint it told nobody.                                  *)
Resume ==
  /\ consumer.at = "calling"
  /\ Iterate([consumer EXCEPT !.at = "iterating"])
  /\ UNCHANGED <<next_id, watcher, stopper, known>>

InsertReturns ==
  /\ consumer.at \in {"end", "thrown"}
  /\ consumer' = NoWork
  /\ UNCHANGED <<alerts, next_id, watcher, stopper, known, fate>>

----------------------------------------------------------------------------
(* The watcher. *)

(* The wait of alert_watcher() ended by timeout.  check_alerts_timeouts()   *)
(* copies the alerts that timed out and tells them without the mutex.       *)
check_alerts_timeouts ==
  /\ watcher.at = "waiting"
  /\ LET found == {a \in DOMAIN alerts : check_timeout(alerts[a])}
     IN  /\ alerts' = [a \in DOMAIN alerts |-> IF a \in found THEN [alerts[a] EXCEPT !.timeout_age = 0]
                                               ELSE alerts[a]]
         /\ watcher' = [at |-> "calling", timed_out |-> SetToSortSeq(found, <)]
         /\ fate' = [a \in AlertIds |-> IF a \in found THEN "found" ELSE fate[a]]
  /\ UNCHANGED <<next_id, consumer, stopper, known>>

(* on_alert_timeout(), with alert_watcher_mutex_ held.  It tells nobody     *)
(* when the monitor was stopped.                                            *)
on_alert_timeout ==
  /\ watcher.at = "calling"
  /\ watcher.timed_out # <<>>
  /\ watcher' = [watcher EXCEPT !.timed_out = Tail(@)]
  /\ fate' = [fate EXCEPT ![Head(watcher.timed_out)] = IF @ = "found" THEN "fine" ELSE @]
  /\ UNCHANGED <<alerts, next_id, consumer, stopper, known>>

(* Mutant: the loop does not test stop_alert_watcher_. *)
WatcherLoop_NoTest ==
  /\ watcher.at = "calling"
  /\ watcher.timed_out = <<>>
  /\ watcher' = [watcher EXCEPT !.at = "waiting"]
  /\ UNCHANGED <<alerts, next_id, consumer, stopper, known, fate>>

(* The test of the loop, and its end when the wait is ended by a notify. *)
WatcherLoop ==
  /\ watcher.at = "calling"
  /\ watcher.timed_out = <<>>
  /\ watcher' = [watcher EXCEPT !.at = IF stopper = "none" THEN "waiting" ELSE "ended"]
  /\ UNCHANGED <<alerts, next_id, consumer, stopper, known, fate>>

(* stop_alert_watcher(): it needs alert_watcher_mutex_, which the watcher   *)
(* only releases in its wait; notifies; joins.                              *)
StopFlag ==
  /\ stopper = "none"
  /\ watcher.at # "calling"
  /\ stopper' = "notify"
  /\ UNCHANGED <<alerts, next_id, consumer, watcher, known, fate>>

StopNotify ==
  /\ stopper = "notify"
  /\ stopper' = "join"
  /\ watcher' = IF watcher.at = "waiting" THEN [watcher EXCEPT !.at = "ended"] ELSE watcher
  /\ UNCHANGED <<alerts, next_id, consumer, known, fate>>

StopJoin ==
  /\ stopper = "join"
  /\ watcher.at = "ended"
  /\ stopper' = "done"
  /\ UNCHANGED <<alerts, next_id, consumer, watcher, known, fate>>

----------------------------------------------------------------------------
(* Time goes by.  fate remembers which alerts became overdue. *)
Older(age) == Min({age + 1, MaxAge})

Tick ==
  /\ alerts' = [a \in DOMAIN alerts |->
                  [alerts[a] EXCEPT !.timeout_age = Older(@), !.trigger_age = Older(@)]]
  /\ fate' = [a \in AlertIds |->
                IF /\ a \in DOMAIN alerts
                   /\ alerts[a].config.kind = "NO_DATA"
                   /\ alerts'[a].timeout_age > alerts[a].config.time_to_timeout
                   /\ fate[a] # "found"
                THEN "overdue" ELSE fate[a]]
  /\ UNCHANGED <<next_id, consumer, watcher, stopper, known>>

Consumer == Resume \/ InsertReturns
Watcher == check_alerts_timeouts \/ on_alert_timeout \/ WatcherLoop
Stopper == StopNotify \/ StopJoin

Next ==
  \/ \E c \in Configs : set_alert(c)
  \/ \E a \in AlertIds : remove_alert(a)
  \/ \E e \in Endpoints : ClearEndpoint(e)
  \/ \E e \in Endpoints, value \in Values : insert(e, value)
  \/ Consumer \/ Watcher \/ StopFlag \/ Stopper \/ Tick

(* Nobody has to call the backend.  A thread inside it, or inside a         *)
(* callback, goes on.                                                       *)
Spec == Init /\ [][Next]_vars /\ WF_vars(Consumer) /\ WF_vars(Watcher) /\ WF_vars(Stopper)

----------------------------------------------------------------------------
(* Types, and: every alert has an identifier of its own, below next_id; the *)
(* timeout never is behind the last trigger, since a trigger is an          *)
(* evaluation too.                                                          *)
AlertsTypeOK ==
  /\ next_id \in 1 .. MaxAlerts + 1
  /\ DOMAIN alerts \subseteq 1 .. next_id - 1
  /\ \A a \in DOMAIN alerts : /\ alerts[a].config \in Configs
                             /\ alerts[a].timeout_age \in 0 .. alerts[a].trigger_age
                             /\ alerts[a].trigger_age \in 0 .. MaxAge
  /\ consumer.at \in {"idle", "calling", "end", "thrown"}
  /\ consumer.at # "idle" => consumer.due \subseteq AlertIds /\ consumer.pos \in 0 .. MaxAlerts
  /\ watcher.at \in {"waiting", "calling", "ended"}
  /\ stopper \in {"none", "notify", "join", "done"}
  /\ known \subseteq Endpoints

(* trigger_alerts_of_kind_nts() releases the mutex in the middle of its     *)
(* iteration.  Whatever other alerts are added and removed meanwhile, each  *)
(* alert that stays is evaluated for the sample, and none twice.            *)
EveryAlertEvaluated ==
  consumer.at # "idle" =>
    \A a \in AlertIds : /\ consumer.seen[a] <= 1
                        /\ consumer.at = "end" /\ a \in consumer.due => consumer.seen[a] = 1

(* An alert that is overdue is told as timed out, unless data arrives, it   *)
(* is removed or the watcher is stopped: the samples and the callbacks of   *)
(* other alerts do not hold it up.  Data is any sample of the alert's kind  *)
(* in its domain: check_trigger_conditions() restarts the timeout before it *)
(* asks entity_matches(), so that one of an endpoint that the alert does    *)
(* not name counts too.                                                     *)
TimesOut ==
  \A a \in AlertIds :
    fate[a] = "overdue" ~> fate[a] = "fine" \/ stopper # "none"

(* stop_alert_watcher() returns, also when the wait of the watcher expires  *)
(* between the flag and the notification, so that it is not waiting when it *)
(* is notified.                                                             *)
WatcherStops == stopper # "none" ~> stopper = "done"

(* "Empty strings act as wildcards" (alert_info.rst): what an alert with    *)
(* these names should match.                                                *)
FiltersAsDocumented ==
  \A a \in DOMAIN alerts : \A e \in Endpoints :
    LET c == alerts[a].config
    IN  entity_matches(c, e) <=> /\ c.host_name \in {"", e.host}
                                 /\ c.user_name \in {"", e.user}
                                 /\ c.topic_name \in {"", e.topic}
============================================================================
