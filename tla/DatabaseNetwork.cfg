SPECIFICATION DBSpec
CONSTANTS
  d1 = d1  d2 = d2  h1 = h1  u1 = u1  u2 = u2  x1 = x1  x2 = x2
  p1 = p1  p2 = p2  p3 = p3  t1 = t1  e1 = e1  e2 = e2
  NoEntity = NoEntity
  Hosts = {h1}
  Participants = {p1, p2, p3}
  Endpoints = {e1, e2}
  Domains = {d1, d2}
  Users = {u1, u2}
  Processes = {x1, x2}
  Topics = {t1}
  Parent <- TwoUsers
  TopicOf <- OneTopic
  DomainOf <- TwoDomains
  Pid <- TwoPids
  ConcurrentClear = FALSE
SYMMETRY SameEndpoints
INVARIANTS DBTypeOK ActiveAsMembers MirrorsNetwork ToldWhatIs ReferencesAlive GraphAllActive NoStaleNodes
