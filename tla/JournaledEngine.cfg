CONSTANTS
  Cmds = {c1, c2}
  RingCap = 1
  Batch = 2
  MaxSeq = 3
  Policies = {"EveryBatch", "OnShutdown"}
  EventCap = 1
  Faults = TRUE
  MaxCrash = 1
  NoCmd = NoCmd
SPECIFICATION FairSpec
INVARIANTS JournalIsHistory Watermarks EventsFit StatusCoherent CompleteMeansAll SnapshotCovered DurableSurvives
PROPERTIES RecoveryRestoresPrefix ClosedEnds
CHECK_DEADLOCK FALSE
