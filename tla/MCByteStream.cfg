SPECIFICATION Spec
CONSTANTS
  None = None
  GroupBits = 3
  SizeBits = 7
  MAGIC_BYTES <- MCMagic
  Supported = {0, 17, 273}
  MaxHeader = 3
  TimeBytes = 2
  HashSize <- MCHashSize
  PACKET_SIZE = 8
  Messages <- MCMessages
  Offers <- MCOffers
  MaxSent = 2
  MaxFailures = 1
INVARIANTS
  VersionAgreed
PROPERTIES
  KeepsStream
CHECK_DEADLOCK FALSE
