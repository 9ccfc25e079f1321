SPECIFICATION Spec
CONSTANTS
  exam = exam
  book = book
  w1 = w1
  w2 = w2
  NoDoc = NoDoc
  Docs = {exam}
  Oversized = {}
  Workers = {w1, w2}
  MaxRetries = 2
  MaxLosses = 2
  NumPages <- Two
  NumQuestions <- Two
  Faults = {"raise", "db", "soft", "kill", "crash", "publish", "enqueue", "confirm", "api"}
SYMMETRY WorkerSymmetry
INVARIANTS TypeOK ExtractedOnce CompletedIsWhole OneExecution QueuedIsPending
PROPERTIES LedgerSpec CompletedIsFinal
CHECK_DEADLOCK FALSE
