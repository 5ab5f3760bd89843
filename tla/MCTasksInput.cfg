SPECIFICATION TasksSpec
CONSTANTS
  Member = {2, 3, 4}
  Session = {1, 2, 3}
  NoMember = NoMember
  NoSession = NoSession
  TIME_SLICE_TICKS = 2
  QueueCapacity = 2
  MaxSleep = 3
  Calls = {"run", "command", "spawn", "wait", "nohang", "terminate", "session", "read", "snake", "sleep", "yield"}
INVARIANTS
  TasksTypeOK
  NoLostWakeup
  GameHasPlayer
  CancelledStaysInKernel
