CONSTANTS
  Scancode <- MCScancode
  Translate <- MCTranslate
  Printable = {"a", "b"}
  BufSize = 3
  CmdSize = 3
  MaxKeys = 5
  Width = 46
  Height = 55
  Runs = 2
  ClientsPerRun = 2
  Messages = 2
  SectionEvery = 2
  Slots = 4
  QueueSize = 3
  None = None
  TestCpus = 2
  Script <- MCScript
  Once = 1
  Loops = 1
  Workers = 3
  TickCpu = {c1, c2, c3}
  Sleeper = {s1}
  SleepTicks = 2
  MaxTicks = 5
  NoTick = NoTick
SPECIFICATION MCSpec
INVARIANTS NoKeyLost RunsWhatWasTyped ScreenShowsLine DoneMeansAll SectionsIntact CoretestComplete PlacesDistinct SleepsLongEnough
PROPERTIES PortsAreFifo PassedStays EveryWaitEnds
