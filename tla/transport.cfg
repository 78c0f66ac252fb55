SPECIFICATION FairSpec
CONSTANTS
  MaxAttempts = 3
  Interval = 3
  Backoff = 2
  Timeout = 2
  Horizon = 6
  Views = {v1, v2}
  NoView = NoView
INVARIANTS
  TypeOK
  GivesUpHonestly
PROPERTIES
  Paced
  AnswersAreReads
  CallReturns
