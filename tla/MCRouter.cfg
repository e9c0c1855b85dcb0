CONSTANTS
  SHARDS = 2
  Instruments = {1, 2, 3}
  RouteArrays <- MCArrays
  CommandCap = 2
  EventCap = 1
  MaxSeq = 3
  NoCommand = NoCommand
  NoShard = NoShard
  NoInstrument = NoInstrument
  Faults = TRUE
  Drained = {0}
  MaxSend = 3
SPECIFICATION LiveSpec
INVARIANTS NothingVanishes TableIsTheArray
PROPERTY DrainedShardsAnswer
CHECK_DEADLOCK FALSE
