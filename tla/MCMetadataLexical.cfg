SPECIFICATION Spec
CONSTANTS
  Names <- AllNames
  Identifiers <- AllNames
  Keywords = {"KEY", "id"}
  Mandatory <- MandatoryNames
  UnitNames <- XisfNames
  Images = 1
  Long <- LongDrafts
  Brief <- BriefDrafts
  MaxBrief = 3
  MaxValue = 10
  MaxEntries = 4
  ReaderMaxValue = 10
  ReaderMaxEntries = 4
INVARIANT KeepsLexicalForm
CHECK_DEADLOCK FALSE
