SPECIFICATION Spec
CONSTANTS
  m1 = m1
  m2 = m2
  m3 = m3
  m4 = m4
  m5 = m5
  d1 = d1
  d2 = d2
  d3 = d3
  Workers = {w1}
  Channels = {"chat", "prayer", "join"}
  Inline = {"join"}
  Slots <- OneAtATime
  Concurrency <- OneAtATime
  MaxMessages = 1
  Msgs = {m1, m2, m3, m4}
  Traffics <- CopiesTraffics
  Channel <- CopiesChannel
  Form <- Readable
  Notices = {"prayer", "asked", "decided"}
  Verdict <- Decisions
  Notice <- CopiesNotice
  Devices = {d1, d2, d3}
  Targets <- CopiesTargets
  Removable = {"prayer"}
  Configured = {d1, d2, d3}
  Gathers = {g1, g2, g3}
  DispatchEnabled = TRUE
  Slow = {}
  MaxFaults = 2
SYMMETRY Symmetry
CHECK_DEADLOCK FALSE
INVARIANTS
  SettledBeforeDelete
  RepeatsNeedSlips
PROPERTY
  ImplementsContract
