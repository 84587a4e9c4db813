SPECIFICATION FairSpec
CONSTANTS
  plan = plan
  Workers = {w1}
  Serving = {w1}
  Enrolments = {plan}
  Rows = {r1, r2, r3}
  Owner <- OneEnrolment
  BatchSize = 2
  Idempotent = FALSE
  MaxRequests = 2
  MaxFaults = 0
CHECK_DEADLOCK FALSE
PROPERTY
  DueRings
