SPECIFICATION Spec
CONSTANTS
  Operators = {o1, o2}
  Embedders = {e1}
  Tenders = {t1, t2}
  BatchSize = 1
  MaxBatches = 2
  Commands <- MCCommands
  MaxCommands = 3
  MaxIngests = 2
  MaxFaults = 1
INVARIANTS
  RevisionMatchesSchema
  EmbeddedIsSearchable
PROPERTY EmbeddingsCatchUp
