CONSTANTS
  m1 = m1
  m2 = m2
  f1 = f1
  f2 = f2
  t0 = t0
  t1 = t1
  t2 = t2
  t3 = t3
  t4 = t4
  t5 = t5
  t6 = t6
  None = None
  Mapper <- MCMapper
  Virt = {1, 2}
  Owner <- SharedOwner
  Phys = {f1, f2}
  Table <- MCTable
  Root = t0
  Path <- SharedPath
SPECIFICATION VmmSpec
INVARIANTS MapSticks
