CONSTANTS
  Runs = 1
  ClientsPerRun = 2
  Messages = 3
  SectionEvery = 2
  Slots = 3
  QueueSize = 3
  None = None
SPECIFICATION FairSpec
INVARIANTS NoNullSection
CHECK_DEADLOCK FALSE
