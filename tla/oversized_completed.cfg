SPECIFICATION Spec
CONSTANTS
  exam = exam
  book = book
  w1 = w1
  w2 = w2
  NoDoc = NoDoc
  Docs = {book}
  Oversized = {book}
  Workers = {w1, w2}
  MaxRetries = 1
  MaxLosses = 1
  NumPages <- One
  NumQuestions <- One
  Faults = {"raise", "crash"}
INVARIANT OversizedNeverCompleted
CHECK_DEADLOCK FALSE
