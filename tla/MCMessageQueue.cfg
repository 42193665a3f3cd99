CONSTANTS
  Id = {"p1", "p2"}
  Length <- Lengths
  BufferSize = 1
  Size = 3
  Burst = 1
  NULL = "null"
SPECIFICATION FairSpec
INVARIANTS ReadyContiguous BlocksOwned PacketInPlace
PROPERTIES ImplementsQueue NoPacketStranded
