SPECIFICATION FairSpec
CONSTANTS
  NPcbs = 2
  NStacks = 2
  NPriorities = 2
  TimeMod = 4
  MaxPid = 3
  ExitCodes = {1}
  Prios = {0, 1}
  Calls = {"fork", "exec", "exit", "sleep", "kill", "wait"}
  InitCalls = {"fork", "exec", "exit", "sleep", "kill", "wait"}
  Ticks = {1, 2}
  Times = {}
  MaxTime = 4
  BufSize = 0
PROPERTIES
  HandlersReturn
  SleepersWake
  BestPriorityRuns
