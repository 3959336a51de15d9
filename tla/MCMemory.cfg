CONSTANTS
  Descs <- MCDescs
  LowPages = 8
  BytesPerPage = 4
  Counts = {1, 3}
  Null <- MCNull
  Pool = 32
  Header = 4
  Align = 2
  Slack = 2
  Sizes = {0, 1, 3, 6}
  NULL <- MCNull
  m1 = m1
  m2 = m2
  f1 = f1
  f2 = f2
  t0 = t0
  t1 = t1
  t2 = t2
  t3 = t3
  t4 = t4
  t5 = t5
  t6 = t6
  None = None
  Mapper <- MCMapper
  Virt = {1, 2, 3}
  Owner <- ApartOwner
  Phys = {f1, f2}
  Table <- MCTable
  Root = t0
  Path <- ApartPath
SPECIFICATION MemSpec
INVARIANTS PmmInv SearchIsNextFit HeapInv VmmInv
PROPERTIES RefusesOnlyWhenFull MapsOnlyItsOwn
