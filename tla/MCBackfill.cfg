SPECIFICATION Spec
CONSTANTS
  Walks = {1, 2}
  LastPeriod = 5
  Files = {"2020", "202101", "202102"}
  NoFile = NoFile
  FileOf <- MCFileOf
  Keys = {"a", "b"}
  Snapshot <- MCSnapshot
  MaxFaults = 2
INVARIANTS
  DoneIsStored
  FinishedWalkCovers
  UndisturbedWalkIsCurrent
PROPERTY WalksConverge
