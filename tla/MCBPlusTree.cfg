SPECIFICATION Spec
CONSTANTS
  BlockSizes = {8, 12, 20, 28}
  Entries <- MCEntries
INVARIANTS
  TypeOK
  WellFormed
  SearchAnswers
  RangeAnswers
