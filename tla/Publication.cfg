CONSTANTS
  Publishers = {p1, p2, p3}
  Writers = {w1, w2}
  Nobody = Nobody
  Named = {p1, p2}
  MaxCrash = 2
SPECIFICATION PublicationSpec
INVARIANTS CommittedIsWhole PublishedSurvives DestinationIsWhole ReportIsTrue
CHECK_DEADLOCK FALSE
