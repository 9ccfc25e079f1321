SPECIFICATION Spec
CONSTANTS
  Uploads <- Files
  AllowedKinds = {"pdf", "jpeg", "png"}
  HardLimit = 4
  SoftLimit = 2
  TargetSize = 1
  MaxPageCount = 2
  MaxDim = 4
  MaxSize = 5
  MaxExecutions = 2
  NoFile = NoFile
INVARIANTS TypeOK AppliedMeansSmaller TurnedRight LossOfOneExecution
INVARIANTS TempsForCause PagesWhole NativeTextKept
CHECK_DEADLOCK FALSE
