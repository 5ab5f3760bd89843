SPECIFICATION TasksSpec
CONSTANTS
  Member = {2, 3, 4, 5}
  Session = {1, 2, 3, 4}
  NoMember = NoMember
  NoSession = NoSession
  TIME_SLICE_TICKS = 1
  QueueCapacity = 1
  MaxSleep = 2
  Calls = {"run", "command", "spawn", "wait", "terminate", "session"}
INVARIANTS
  ParentPresent
  OrphansReapedPromptly
  NeverHalts
  ShellNeverCancelled
  LauncherWaits
  PromptHasSlot
  SupervisorCanRestart
PROPERTIES
  ConsoleSpec
