CONSTANTS
  i0 = i0
  i1 = i1
  s = s
  sh = sh
  w = w
  None = None
  NCpu = 2
  MaxPriority = 1
  Thread <- MCThread
  IdleOf <- MCIdleOf
  Shell = sh
  FirstTid = i1
  Servers = {s}
  Askers = {sh}
  Asked = {w}
SPECIFICATION ASpec
INVARIANTS OnePlace NotLost StackSafe DeadIsDead AInv
PROPERTIES NeverResumesStopped PriorityRespected StaysOnCpu
