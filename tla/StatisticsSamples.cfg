SPECIFICATION DataSpec
CONSTANTS
  p1 = p1  w1 = w1  w2 = w2  l1 = l1  NoKey = NoKey
  Entities = {p1, w1, l1}
  KindOf <- SomeKinds
  DataKinds = {"HEARTBEAT_COUNT", "RTPS_BYTES_SENT", "SAMPLE_DATAS"}
  SequenceNumbers = {1, 2}
  Base = 2
  Queries <- EvenQueries
  MaxTime = 3
  MaxCount = 2
  MaxSamples = 3
  MaxCalls = 2
  ConcurrentClear = FALSE
\* Nobody has to call the backend, and the bounds run out.
CHECK_DEADLOCK FALSE
INVARIANTS SamplesOrdered IncrementsAddUp PointersAlive RawIsInterval BinsAreRight
PROPERTIES LoadRestores
