CONSTANTS
  s1 = s1
  s2 = s2
  i1 = i1
  i2 = i2
  i3 = i3
  Shards = {s1, s2}
  Instruments = {i1, i2, i3}
  Route <- MCRoute
  LogonTimeout = 1
  HeartbeatTimeout = 2
  MaxTick = 6
  MaxSession = 3
  MaxSeq = 3
SPECIFICATION Spec
INVARIANTS TimersMatchState FailureIsShared AtMostOneLate
PROPERTY SequencesMoveTogether
