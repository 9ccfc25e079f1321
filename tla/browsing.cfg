SPECIFICATION BrowsingSpec
CONSTANTS
  exam = exam
  book = book
  alice = alice
  bob = bob
  c1 = c1
  c2 = c2
  Docs = {exam, book}
  Users = {alice, bob}
  Owner <- MCOwner
  Warned = {exam}
  NumQuestions <- MCNumQuestions
  Flagged <- MCFlagged
  MaxAttempts <- MCAttempts
  Clients = {c1, c2}
  PageSize = 2
  Number <- MCNumber
  Listings <- MCListings
INVARIANTS TypeOK QueueMatchesQuestions ResolvedAsAsked MissedForCause TwiceForCause
SYMMETRY ClientSymmetry
CHECK_DEADLOCK FALSE
