SPECIFICATION Spec
CONSTANTS
  m1 = m1
  m2 = m2
  m3 = m3
  d1 = d1
  d2 = d2
  Workers = {w1, w2}
  OldWorkers = {}
  Msgs = {m1, m2}
  Devices = {d1, d2}
  Gathers = {g1, g2}
  Occasions = {"day1", "day2"}
  Shape <- DaysShape
  Body <- DaysBody
  Occasion <- DaysOccasion
  Targets <- DaysTargets
  Removable = {m2}
  Configured = {d1, d2}
  NoFireAt = "none"
  DispatchEnabled = TRUE
  LegacyKeyFallback = FALSE
  MaxMessages = 2
  Concurrency = 1
  MaxFaults = 2
SYMMETRY Symmetry
CHECK_DEADLOCK FALSE
INVARIANTS
  TypeOK
  SettledBeforeDelete
  MarkersSpeakTrue
  RepeatsNeedSlips
PROPERTY
  ImplementsContract
