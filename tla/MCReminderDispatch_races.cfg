SPECIFICATION FairSpec
CONSTANTS
  plan = plan
  Workers = {w1, w2}
  Serving = {w1, w2}
  Enrolments = {plan}
  Rows = {r1, r2, r3}
  Owner <- OneEnrolment
  BatchSize = 2
  Idempotent = TRUE
  MaxRequests = 2
  MaxFaults = 1
CHECK_DEADLOCK FALSE
INVARIANTS
  TypeOK
  EnrolledHasReminder
  RingsOnce
  ExtrasNeedRaces
PROPERTY
  DueRingsUnlessHung
