SPECIFICATION FairSpec
CONSTANTS
  None = None
  LowBytes = 16
  MaxPrice = 9
  Answers <- MCAnswers
  MaxRounds = 3
INVARIANTS
  TypeOK
  BaselineIsCommitted
PROPERTIES
  PollRefreshesBaseline
  BaselineCatchesUp
