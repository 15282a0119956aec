SPECIFICATION Spec
CONSTANTS
  Jobs = {j1, j2}
  Crons = {weekly, typo}
  ValidCrons = {weekly}
  Hours = {7, 9}
  MaxEdits = 3
  MaxFaults = 1
  None = None
INVARIANTS
  KnownIsScheduled
  NoStaleSchedule
PROPERTIES
  SchedulesTakeEffect
  StopEnds
