SPECIFICATION Spec
CONSTANTS
  BlockSizes = {16}
  Entries <- MCEntries
INVARIANTS
  SearchAnswers
