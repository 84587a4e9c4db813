SPECIFICATION FairSpec
CONSTANTS
  m1 = m1
  m2 = m2
  m3 = m3
  m4 = m4
  j1 = j1
  j2 = j2
  NoMsg = NoMsg
  Workers = {w1, w2}
  Msgs = {m1, m2, m3}
  Jobs = {j1}
  JobOf <- EndsJobOf
  Form <- EndsForm
  MaxMessages = 2
  MaxFaults = 3
CHECK_DEADLOCK FALSE
PROPERTY
  EveryJobEnds
