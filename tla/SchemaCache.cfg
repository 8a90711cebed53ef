SPECIFICATION FairSpec
CONSTANTS
  Keys = {catalogScope}
  Callers = {c1}
  Flights = {f1, f2}
  Scripts = {ddl}
  MaxChanges = 2
  MaxEpoch = 1
  None = None
INVARIANTS
  WaitersSeeInvalidatedChanges
  KeptAnswersPassedTheFence
  CallsAreRunning
PROPERTIES
  DifferenceIsTold
  CallersAreAnswered
