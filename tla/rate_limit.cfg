SPECIFICATION Spec
CONSTANTS
  ra = ra
  rb = rb
  rc = rc
  rd = rd
  re = re
  Requests = {ra, rb, rc, rd, re}
  MaxRequests = 2
  Window = 3
  MaxDelay = 1
  MaxTimeouts = 1
  MaxTime = 7
SYMMETRY RequestSymmetry
INVARIANTS TypeOK WindowBound RefusedForCause
CHECK_DEADLOCK FALSE
