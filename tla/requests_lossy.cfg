SPECIFICATION SessionSpec
CONSTANTS
  N = 4
  Id = {"g", "d", "c"}
  Fresh = {"d"}
  Needs <- SessionNeeds
  Cached = {1, 3}
  Refused = {1, 4}
  Skippable = {4}
  Retries = 1
  MaxReports = 2
  MaxFaults = 3
INVARIANTS ReservationsHeld ReportedOnce CompletesBefore KeyRunsOnce TakesEffectOnce
PROPERTY EndsUnlessStranded
CHECK_DEADLOCK FALSE
