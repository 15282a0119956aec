SPECIFICATION Spec
CONSTANTS
  Walks = {1}
  LastPeriod = 5
  Files = {"2020", "202101", "202102"}
  NoFile = NoFile
  FileOf <- MCFileOf
  Keys = {"a", "b"}
  Snapshot <- MCSnapshot
  MaxFaults = 2
INVARIANT ResumedWalkIsCurrent
