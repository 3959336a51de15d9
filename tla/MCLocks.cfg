CONSTANTS
  a = a
  b = b
  d = d
  NCpu = 2
  Thread = {a, b, d}
  CpuOf <- MCCpuOf
  Calls <- MCCalls
  None = None
SPECIFICATION FairSpec
INVARIANTS LocksTypeOK SpinsOnRunning
PROPERTIES InterruptsComeBack
