SPECIFICATION Spec
CONSTANTS
  Writers = {1, 2, 3}
  Keys = {"a", "b"}
  Columns <- MCColumns
  Values <- MCValues
  Versions <- MCVersions
  Content <- MCContent
  Urls <- MCUrls
  Links <- MCLinks
  Vectorless = {4}
  Batches <- MCBatches
  Keep = Keep
  NoRow = NoRow
  NoWriter = NoWriter
INVARIANTS
  OneRowPerTender
  BatchAtomic
  NewestDocumentsPresent
  SerialUpsertIsWhole
  SerialEmbeddingIsUnique
PROPERTIES
  TenderIdsAreStable
  EmbeddingKept
  EveryCallEnds
CHECK_DEADLOCK FALSE
