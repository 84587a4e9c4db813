SPECIFICATION FairSpec
CONSTANTS
  Workers = {w1, w2}
  Refreshers = {r1}
  Keys = {k1}
  Events = {e1, e2}
  Skew = 0
  Drift <- Behind
  MaxClock = 3
  MaxSilent = 1
  MaxFaults = 1
CHECK_DEADLOCK FALSE
INVARIANTS
  CountsExact
  StoredBeforeDelete
  Converged
PROPERTY
  EveryEventStored
  ChangesGoForward
