-------------------------- MODULE MCEntityDatabase --------------------------
(***************************************************************************)
(* Small networks for EntityDatabase.                                      *)
(***************************************************************************)
EXTENDS EntityDatabase, TLC

CONSTANTS d1, d2, h1, u1, u2, x1, x2, p1, p2, p3, t1, e1, e2

(* Two users of one host.  The process of u1 has a participant in each of   *)
(* two domains, that of u2 has one.  Both endpoints of p1 are on one topic, *)
(* and interchangeable.                                                     *)
TwoUsers ==
  u1 :> h1 @@ u2 :> h1 @@ x1 :> u1 @@ x2 :> u2 @@ p1 :> x1 @@ p2 :> x1 @@ p3 :> x2
  @@ e1 :> p1 @@ e2 :> p1
TwoDomains == p1 :> d1 @@ p2 :> d2 @@ p3 :> d1 @@ t1 :> d1
SameEndpoints == Permutations({e1, e2})
TwoPids == x1 :> 1 @@ x2 :> 2
ReusedPid == x1 :> 1 @@ x2 :> 1

(* One process with two participants, each with an endpoint on one topic.   *)
OneProcess ==
  u1 :> h1 @@ x1 :> u1 @@ p1 :> x1 @@ p2 :> x1 @@ e1 :> p1 @@ e2 :> p2
OneTopic == e1 :> t1 @@ e2 :> t1
OneDomain == p1 :> d1 @@ p2 :> d1 @@ t1 :> d1
=============================================================================
