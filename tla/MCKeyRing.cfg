SPECIFICATION Spec
CONSTANTS
  CAP = 4
  Byte <- MCByte
  MaxKeys = 3
  MaxOffered = 6
INVARIANTS
  NothingLostOrReordered
  ByteIsNextInOrder
PROPERTIES
  DropOnlyWhenFull
  ImplementsQueue
  EveryByteDelivered
