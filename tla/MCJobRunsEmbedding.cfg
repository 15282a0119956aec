SPECIFICATION Spec
CONSTANTS
  Jobs = {"job"}
  JobExecutions = {"first", "second"}
  Periods = {"period"}
  JobOf <- MCJobOf
  Sources = {"placsp", "ted"}
  Plan <- MCPlan
  Tenders = {"t"}
  MaxFaults = 2
  None = None
INVARIANT EmbeddingNeverBreaksIngest
CHECK_DEADLOCK FALSE
