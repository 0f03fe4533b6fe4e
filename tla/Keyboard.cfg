SPECIFICATION Spec
CONSTANTS
  INTERNAL_BUFFER_SIZE = 3
  Keycodes <- MCKeycodes
  Commands <- MCCommands
  ConfigBytes <- MCConfigBytes
INVARIANTS
  TypeOK
  RingConsistent
  StatusTruthful
  LineTracked
  InterruptJustified
PROPERTIES
  ReadRearmsEdge
  ImplementsQueue
CHECK_DEADLOCK TRUE
