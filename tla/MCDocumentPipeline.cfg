SPECIFICATION Spec
CONSTANTS
  Workers = {1, 2}
  Tenders = {"t"}
  Urls = {"a", "b"}
  Unstorable = {"b"}
  LastId = 3
  BatchSize = 2
  MaxBatches = 2
  MaxBytes = 1
  MaxFaults = 1
  None = None
INVARIANTS
  OutcomeIsWhole
  TextIsOfItsUrl
PROPERTY DocumentsGetOutcomes
