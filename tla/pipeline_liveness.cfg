SPECIFICATION FairSpec
CONSTANTS
  exam = exam
  book = book
  w1 = w1
  w2 = w2
  NoDoc = NoDoc
  Docs = {book}
  Oversized = {book}
  Workers = {w1, w2}
  MaxRetries = 1
  MaxLosses = 1
  NumPages <- One
  NumQuestions <- One
  Faults = {"raise", "db", "soft", "kill", "crash"}
INVARIANT SkippedNotCompleted
PROPERTIES NeverStuckProcessing EveryTaskEnds
CHECK_DEADLOCK FALSE
