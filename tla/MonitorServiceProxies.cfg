SPECIFICATION MSSpec
CONSTANTS
  p1 = p1  r1 = r1  w1 = w1  NoGuid = NoGuid
  Participants = {p1}
  Readers = {r1}
  Writers = {}
  Owner <- OneOwner
  StatusKinds = {"EXTENDED_INCOMPATIBLE_QOS", "INCOMPATIBLE_QOS", "DEADLINE_MISSED",
                 "LIVELINESS_LOST"}
  MaxArrivals = 6
  MaxTime = 2
\* The number of samples is bounded, and std::terminate() ends the program.
CHECK_DEADLOCK FALSE
INVARIANTS ParticipantFirst StatusIsWorstOfNewest GraphShowsStatus DisposedInactive
PROPERTIES TrustNeverFalls
