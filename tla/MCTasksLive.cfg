SPECIFICATION FairTasksSpec
CONSTANTS
  Member = {2, 3, 4}
  Session = {1, 2, 3}
  NoMember = NoMember
  NoSession = NoSession
  TIME_SLICE_TICKS = 1
  QueueCapacity = 1
  MaxSleep = 2
  Calls = {"run", "spawn", "wait", "terminate", "read", "snake", "sleep"}
PROPERTIES
  ReadyRuns
  CancelledExits
  OrphansFreed
  SleepersWake
