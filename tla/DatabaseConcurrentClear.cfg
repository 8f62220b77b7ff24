SPECIFICATION DBSpec
CONSTANTS
  d1 = d1  d2 = d2  h1 = h1  u1 = u1  u2 = u2  x1 = x1  x2 = x2
  p1 = p1  p2 = p2  p3 = p3  t1 = t1  e1 = e1  e2 = e2
  NoEntity = NoEntity
  Hosts = {h1}
  Participants = {p1, p2}
  Endpoints = {e1, e2}
  Domains = {d1}
  Users = {u1}
  Processes = {x1}
  Topics = {t1}
  Parent <- OneProcess
  TopicOf <- OneTopic
  DomainOf <- OneDomain
  Pid <- TwoPids
  ConcurrentClear = TRUE
\* std::terminate() ends the program.
CHECK_DEADLOCK FALSE
INVARIANTS NeverClearedInUse
PROPERTIES ParentToldFirst
