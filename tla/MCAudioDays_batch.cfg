SPECIFICATION MCSpec
CONSTANTS
  m1 = m1
  m2 = m2
  m3 = m3
  m4 = m4
  j1 = j1
  j2 = j2
  NoMsg = NoMsg
  Workers = {w1, w2}
  Msgs = {m1, m2, m3, m4}
  Jobs = {j1, j2}
  JobOf <- BatchJobOf
  Form <- BatchForm
  MaxMessages = 2
  MaxFaults = 2
  SamplesPerMs = 3
  BytesPerSample = 2
  Inexact = {2}
CHECK_DEADLOCK FALSE
SYMMETRY Symmetry
INVARIANTS
  TypeOK
  GeneratedOnce
  CompletedHasAudio
  StrandsAccountedFor
  TimelineKeepsToAudio
