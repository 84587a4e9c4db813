SPECIFICATION FairSpec
CONSTANTS
  m1 = m1
  m2 = m2
  m3 = m3
  d1 = d1
  d2 = d2
  Workers = {w1}
  OldWorkers = {w1}
  Msgs = {m1, m2, m3}
  Devices = {d1, d2}
  Gathers = {g1, g2}
  Occasions = {"day1", "created"}
  Shape <- DeployShape
  Body <- DeployBody
  Occasion <- DeployOccasion
  Targets <- DeployTargets
  Removable = {}
  Configured = {d1, d2}
  NoFireAt = "none"
  DispatchEnabled = TRUE
  LegacyKeyFallback = TRUE
  MaxMessages = 2
  Concurrency = 2
  MaxFaults = 2
CHECK_DEADLOCK FALSE
INVARIANTS
  RepeatsNeedSlips
PROPERTY
  EveryMessageLeaves
