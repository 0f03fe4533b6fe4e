SPECIFICATION SystemSpec
CONSTANTS
  INTERNAL_BUFFER_SIZE = 4
  Keycodes <- MCKeycodes
  Commands <- MCCommands
  ConfigBytes <- MCConfigBytes
  Chars <- MCFewChars
  tab <- MCtab
  tabmin <- MCtabmin
  tabmai <- MCtabmai
  NEWLINE <- MCNewline
  LineLength = 2
  MaxChars = 2
INVARIANTS
  OnlyTypedText
CHECK_DEADLOCK FALSE
