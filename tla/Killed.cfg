SPECIFICATION Spec
CONSTANTS
  NPcbs = 2
  NStacks = 2
  NPriorities = 2
  TimeMod = 8
  MaxPid = 2
  ExitCodes = {1}
  Prios = {}
  Calls = {"fork", "kill", "sleep"}
  InitCalls = {"fork", "kill", "sleep"}
  Ticks = {1}
  Times = {}
  MaxTime = 2
  BufSize = 0
PROPERTIES
  KilledStaysKilled
