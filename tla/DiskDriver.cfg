SPECIFICATION DriverSpec
CONSTANTS
  BLOCK_SIZE_BYTE = 4
  blocks_number = 4
  UINT32 = 64
  DiskBytes <- MCDiskBytes
  InitialDisks <- MCInitialDisks
  GarbageBlocks <- MCGarbageBlocks
  REG = 4
  LBA_SPACE = 128
  RegisterValues <- MCRegisterValues
  Words <- MCWords
  MaxSectors = 6
  LbaValues <- MCLba
  QuantiValues = {1, 2, 3}
  MaxCommands = 1
INVARIANTS
  FirstWriteLands
  LaterSectorsRead
PROPERTIES
  FirstCommandTerminates
CHECK_DEADLOCK TRUE
