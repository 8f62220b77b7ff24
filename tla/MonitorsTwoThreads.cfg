SPECIFICATION Spec
CONSTANTS
  Threads = {th1, th2}
  Domains = {d1, d2}
  Topics = {t1, t2}
  SpyTopics = {u1}
  NoTopic = NoTopic
  NoThread = NoThread
\* std::terminate() ends the program.
CHECK_DEADLOCK FALSE
INVARIANTS MutualExclusion NothingLeaks ListenersOutlive
PROPERTIES CallReturns
