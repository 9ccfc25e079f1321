SPECIFICATION FairSpec
CONSTANTS
  k1 = k1
  k2 = k2
  q1 = q1
  q2 = q2
  ra = ra
  rb = rb
  None = None
  Pipeline = Pipeline
  Keys = {k1}
  Questions = {q1, q2}
  Requests = {ra}
  LinkFaults = {}
  MaxRedeliveries = 0
PROPERTY LinkMatches
CHECK_DEADLOCK FALSE
