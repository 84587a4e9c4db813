SPECIFICATION FairSpec
CONSTANTS
  m1 = m1
  m2 = m2
  m3 = m3
  m4 = m4
  m5 = m5
  d1 = d1
  d2 = d2
  d3 = d3
  Workers = {w1}
  Channels = {"chat", "post"}
  Inline = {"post"}
  Slots <- SlowSlots
  Concurrency <- OneAtATime
  MaxMessages = 2
  Msgs = {m1, m2, m3, m4, m5}
  Traffics <- SlowTraffics
  Channel <- SlowChannel
  Form <- SlowForm
  Notices = {"prayer", "hello", "bad", "post"}
  Verdict <- NoVerdict
  Notice <- SlowNotice
  Devices = {d1}
  Targets <- SlowTargets
  Removable = {}
  Configured = {d1}
  Gathers = {g1, g2, g3}
  DispatchEnabled = TRUE
  Slow = {m1}
  MaxFaults = 1
CHECK_DEADLOCK FALSE
PROPERTY
  SlowHoldsNobodyBack
