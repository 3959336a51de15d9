CONSTANTS
  i0 = i0
  i1 = i1
  sh = sh
  s = s
  a = a
  b = b
  None = None
  NCpu = 2
  MaxPriority = 1
  SliceUnit = 1
  AgePeriod = 1
  AgeLimit = 1
  MaxWait = 1
  Thread <- TwoCpuThread
  IdleOf <- TwoCpuIdle
  Shell = sh
  FirstTid = i1
  Servers = {s}
  Sleepers = {s}
SPECIFICATION Spec
INVARIANTS ListsSound
PROPERTIES CoreSpec
