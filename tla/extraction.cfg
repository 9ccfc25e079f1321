SPECIFICATION Spec
CONSTANTS
  Numbers = {2, 10}
  Papers <- AllPapers
  KeyTexts <- Keys
  Rank <- StringOrder
  OcrValues = {0, 50, 100}
INVARIANTS TypeOK SpansTile AnswersOnce LinkedWins KeyAtEndFound UnnumberedFlagged
INVARIANTS EmptyTextFlagged UnreadPageFlagged
CHECK_DEADLOCK FALSE
