SPECIFICATION Spec
CONSTANTS
  NPcbs = 3
  NStacks = 3
  NPriorities = 2
  TimeMod = 8
  MaxPid = 3
  ExitCodes = {1}
  Prios = {}
  Calls = {"fork", "exit", "sleep", "kill", "readc", "wait"}
  InitCalls = {"fork", "exit", "sleep", "kill", "readc", "wait"}
  Ticks = {1, 2}
  Times = {}
  MaxTime = 2
  BufSize = 1
INVARIANTS
  TypeOK
  NoMissedInput
  NoOversleep
PROPERTIES
  WakesOnTime
  KilledNeverRuns
