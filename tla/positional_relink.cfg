SPECIFICATION Spec
CONSTANTS
  Numbers = {2, 10}
  Papers <- AllPapers
  KeyTexts <- Keys
  Rank <- StringOrder
  OcrValues = {0, 50, 100}
PROPERTY ExactAnswersStay
CHECK_DEADLOCK FALSE
