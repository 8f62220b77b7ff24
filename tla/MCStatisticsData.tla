-------------------------- MODULE MCStatisticsData --------------------------
(* Small instances of StatisticsData. *)
EXTENDS StatisticsData

CONSTANTS p1, w1, w2, l1

(* A participant, two datawriters and a locator. *)
SomeKinds == [e \in Entities |-> CASE e = p1 -> "PARTICIPANT" [] e = l1 -> "LOCATOR"
                                   [] OTHER -> "DATAWRITER"]

Query(kind, pairs, from, to, bins) ==
  [kind |-> kind, pairs |-> pairs, from |-> from, to |-> to, bins |-> bins]

(* The bins divide the interval evenly. *)
EvenQueries ==
  {Query("HEARTBEAT_COUNT", <<<<w1, NoKey>>>>, 2, 4, 0),
   Query("HEARTBEAT_COUNT", <<<<w1, NoKey>>>>, 0, 4, 2),
   Query("SAMPLE_DATAS", <<<<w1, NoKey>>>>, 1, 3, 1)}

(* Two bins of one instant each in an interval of three. *)
UnevenQueries == {Query("HEARTBEAT_COUNT", <<<<w1, NoKey>>>>, 1, 4, 2)}
============================================================================
