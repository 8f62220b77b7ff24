SPECIFICATION FairSpec
CONSTANTS
  Clients = {c1, c2}
  Controllers = {c1}
  Threads = {t1, t2}
  NoThread = NoThread
  Loops = 2
  MaxPush = 3
  MaxProcess = 3
INVARIANTS TypeOK InOrderOnce NothingLost FrontValid
PROPERTIES FlushBarrier ImplementsAbstractQueue FlushReturns StopReturns Drained
