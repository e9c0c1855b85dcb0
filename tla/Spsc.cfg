CONSTANTS
  Values = {v1, v2}
  Uninit = Uninit
  N = 2
  Word = 4
  MaxPush = 5
SPECIFICATION FairSpec
INVARIANTS NoDataRace SlotDiscipline
PROPERTIES ImplementsBoundedFifo PublishedIsDelivered
CHECK_DEADLOCK FALSE
