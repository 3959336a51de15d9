CONSTANTS
  i0 = i0
  i1 = i1
  sh = sh
  s = s
  a = a
  b = b
  None = None
  NCpu = 1
  MaxPriority = 2
  SliceUnit = 1
  AgePeriod = 1
  AgeLimit = 1
  MaxWait = 1
  Thread <- OneCpuThread
  IdleOf <- OneCpuIdle
  Shell = sh
  FirstTid = i0
  Servers = {}
  Sleepers = {sh}
SPECIFICATION FairSpec
PROPERTIES StarvationFree SleepEnds
