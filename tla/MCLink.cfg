CONSTANTS
  LogonTimeout = 2
  HeartbeatTimeout = 1
  MaxTick = 4
  MaxSession = 4
  Window = 2
  MaxSequence = 4
  Payloads <- MCPayloads
  RxCapacity = 1
  Cuts = {3, 28}
  MaxReconnects = 2
SPECIFICATION LinkSpec
INVARIANTS ExactlyOnceInOrder WindowCovers NoStandoff
CHECK_DEADLOCK FALSE
