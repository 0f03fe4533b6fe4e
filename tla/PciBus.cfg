SPECIFICATION PciSpec
CONSTANTS
  CONF_SIZE = 24
  SLOTS = 32
  Word = 65536
  Reset <- MCReset
  Garbage <- MCGarbage
  Addresses <- MCAddresses
  Ports <- MCPorts
  Data <- MCData
INVARIANTS
  PciTypeOK
  ReadBack
  BridgeAgrees
PROPERTIES
  AddressedIsSafe
CHECK_DEADLOCK FALSE
