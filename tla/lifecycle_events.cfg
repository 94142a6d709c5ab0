SPECIFICATION FairSpec
CONSTANTS
  a1 = a1
  s1 = s1
  s2 = s2
  k1 = k1
  k2 = k2
  Answers = {a1}
  Spans = {s1, s2}
  ShownBy <- OneAnswer
  Keys = {k1, k2}
  Menu <- TwoOfEach
  Workers = {w1, w2}
  Nobody = Nobody
  BatchSize = 2
  MaxRequests = 2
  MaxFaults = 1
  MaxEntries = 3
INVARIANTS
  TypeOK
  AcknowledgedIsDone
  CommittedLossIsEnqueued
PROPERTIES
  ImplementsLifecycle
  DeliveredIsHandled
