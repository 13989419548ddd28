SPECIFICATION Spec
CONSTANTS
  NPcbs = 2
  NStacks = 2
  NPriorities = 2
  TimeMod = 1
  MaxPid = 2
  ExitCodes = {1}
  Prios = {}
  Calls = {"fork", "wait", "exit"}
  InitCalls = {"fork", "wait", "exit"}
  Ticks = {}
  Times = {}
  MaxTime = 1
  BufSize = 0
PROPERTIES
  WaitReportsStatus
