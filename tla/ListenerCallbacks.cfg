SPECIFICATION FairListenerSpec
CONSTANTS
  Clients = {k1, k2, d1}
  Controllers = {k1, k2}
  Callbacks = {k1, k2}
  Threads = {t1, t2, t3}
  NoThread = NoThread
  Loops = 2
  MaxPush = 2
  MaxProcess = 2
  MaxCalls = 2
\* The callbacks and the samples are bounded: at the end nobody has anything to do.
CHECK_DEADLOCK FALSE
INVARIANTS QuietWhileCreating NeverLeftStopped OneOwner
PROPERTIES CallbackReturns
