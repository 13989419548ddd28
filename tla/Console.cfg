SPECIFICATION ConsoleSpec
CONSTANTS
  shell = shell
  init = init
  Procs = {shell, init}
  Shell = shell
  Columns = 2
  Rows = 3
  TopRow = 1
  Texts = {97, 10, 13}
  Workloads <- MCWorkloads
  C_BUFSIZE = 3
  Codes <- MCCodes
  Printer = init
  Jobs <- MCJobs
INVARIANT ShowsText
INVARIANT AtShowsLine
PROPERTY KeepsKeys
PROPERTY OutsideUntouched
PROPERTY KeyDelivered
PROPERTY PutcharReturns
PROPERTY PrintsArguments
