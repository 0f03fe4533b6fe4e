SPECIFICATION Spec
CONSTANTS
  BLOCK_SIZE_BYTE = 4
  blocks_number = 1
  UINT32 = 16
  DiskBytes <- MCDiskBytes
  InitialDisks <- MCInitialDisks
  GarbageBlocks <- MCGarbageBlocks
  REG = 4
  LBA_SPACE = 128
  RegisterValues <- MCRegisterValues
  Words <- MCWords
  MaxSectors = 2
INVARIANTS
  TypeOK
  IdleAtBoundary
  OneDirectionIsSafe
  LineTracked
CHECK_DEADLOCK TRUE
