SPECIFICATION ConsoleSpec
CONSTANTS
  shell = shell
  init = init
  Procs = {shell, init}
  Shell = shell
  Columns = 1
  Rows = 4
  TopRow = 1
  Texts = {97, 10}
  Workloads <- RaceWorkloads
  C_BUFSIZE = 3
  Codes <- MCCodes
  Printer = init
  Jobs <- NoJobs
INVARIANT ScrollsOnlyAtBottom
