SPECIFICATION QueueSpec
CONSTANTS
  p1 = p1  w1 = w1  r1 = r1  l1 = l1  NoKey = NoKey
  Entities = {p1, w1, r1, l1}
  KindOf <- SomeKinds
  DataKinds = {"FASTDDS_LATENCY", "NETWORK_LATENCY", "RTPS_PACKETS_SENT", "RTPS_BYTES_SENT", "HEARTBEAT_COUNT", "ACKNACK_COUNT", "DISCOVERY_TIME"}
  SequenceNumbers = {}
  Base = 2
  Queries = {}
  Events <- AllEvents
  MaxTime = 2
  MaxCount = 2
  MaxSamples = 2
  MaxCalls = 1
  ConcurrentClear = TRUE
CHECK_DEADLOCK FALSE
INVARIANTS KnownNotDropped
