SPECIFICATION Spec
CONSTANTS
  Requests <- SmallBlocks
  Descriptors <- ForeignBlocks
  Growth = 1
  MaxSerialized = 6
  MaxSubblocks = 3
  MaxRatio = 3
  MaxDecoded = 4
  CodecLimit = 3
  Word = 8
INVARIANTS TypeOK ReadsBack DecodesInBounds
CHECK_DEADLOCK FALSE
