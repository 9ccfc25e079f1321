SPECIFICATION FairSpec
CONSTANTS
  k1 = k1
  k2 = k2
  q1 = q1
  q2 = q2
  ra = ra
  rb = rb
  None = None
  Pipeline = Pipeline
  Keys = {k1, k2}
  Questions = {q1, q2}
  Requests = {ra, rb}
  LinkFaults = {"enqueue", "fail", "redeliver"}
  MaxRedeliveries = 1
INVARIANTS TypeOK AnswersOfLinks LinkedOnce
PROPERTIES NeverTakenBack RelinkMatches 
CHECK_DEADLOCK FALSE
