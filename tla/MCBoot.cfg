CONSTANTS
  Pages = 9
  Maps <- MCMaps
  KernelAt = {2}
  LowPages = 3
  SmpAt = {1}
  Modes <- MCModes
  Nowhere = Nowhere
  Xsdt <- MCXsdt
  Bsp = 0
  None = None
SPECIFICATION Spec
INVARIANTS MapCurrent MemoryIntact CoresApart TidsUnique
PROPERTIES BootEnds
CHECK_DEADLOCK FALSE
