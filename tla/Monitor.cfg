SPECIFICATION FairMonitorSpec
CONSTANTS
  AddressModulus = 1024
  Entries = 4
  IoApicEntry = 2
  LocalApicEntry = 3
  Configs <- MCConfigs
  MinMiB = 2
  LimitMiB = 8
  DefaultMiB = 2
  PageCells = 32
  ProgramBase = 28
  Boot64 <- MCBoot64
  Clients = {"c1", "c2"}
  NULL = NULL
  DumpModulus = 256
  Misreads = 1
INVARIANTS
  MonitorTypeOK
  IdentityMapped
  ImageIntact
  LoaderInBounds
  TerminalRestored
  MonitorSurvives
  AnswersInOrder
PROPERTIES
  ClientServed
CHECK_DEADLOCK FALSE
