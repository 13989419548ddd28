SPECIFICATION Spec
CONSTANTS
  NPcbs = 4
  NStacks = 3
  NPriorities = 2
  TimeMod = 2
  MaxPid = 4
  ExitCodes = {1}
  Prios = {0}
  Calls = {"fork", "exec", "wait", "exit", "kill", "setprio", "settime"}
  InitCalls = {"fork", "exec", "wait", "exit", "kill", "setprio", "settime"}
  Ticks = {}
  Times = {0}
  MaxTime = 1
  BufSize = 0
INVARIANTS
  UniqueHome
  StateMatchesHome
  OnlyWorkloadPanics
  StackOwnership
  QnodesSuffice
  PidsIdentify
  NoMissedZombie
PROPERTY LeavesNoOrphans
