SPECIFICATION MonolithSpec
CONSTANTS
  Requests <- MonolithRequests
  Alignment = 16
  MaxHeader = 9900
  Word = 1000000000
  MaxDigits = 9
  MaxHeaderBytes = 104
  MaxUnused = 44
  Chunk = 4
  ReadFails = TRUE
  ForeignFiles <- AllForeign
  LargestOpened = 300
INVARIANTS BothTyped HeaderIsTrue TightLayout FewBlocksSettle ReaderAgrees DecidesExactly ScansOnlyUnused
PROPERTY NeverMovesForward
CHECK_DEADLOCK FALSE
