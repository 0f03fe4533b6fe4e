SPECIFICATION FairSystemSpec
CONSTANTS
  INTERNAL_BUFFER_SIZE = 4
  Keycodes <- MCKeycodes
  Commands <- MCCommands
  ConfigBytes <- MCConfigBytes
  Chars <- MCChars
  tab <- MCtab
  tabmin <- MCtabmin
  tabmai <- MCtabmai
  NEWLINE <- MCNewline
  LineLength = 2
  MaxChars = 3
INVARIANTS
  SystemTypeOK
  NoMissedWakeup
  NoStrayInterrupt
  TextFaithful
  ShiftAgreed
PROPERTIES
  EventuallyRead
CHECK_DEADLOCK FALSE
