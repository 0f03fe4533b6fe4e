SPECIFICATION GdbSpec
CONSTANTS
  General <- MCGeneral
  Segments <- MCSegments
  N = 3
  Asks <- MCAsks
  MaxRequests = 3
  MaxFaults = 2
INVARIANTS
  GdbTypeOK
  ReplyMatches
  ViewTrue
PROPERTIES
  ResumeHonoured
  EventuallyAnswered
CHECK_DEADLOCK FALSE
