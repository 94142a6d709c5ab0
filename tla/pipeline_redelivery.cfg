SPECIFICATION Spec
CONSTANTS
  t1 = t1
  t2 = t2
  Tasks = {t1}
  Keys = {t1}
  KeyOf <- OwnKeys
  Workers = {w1, w2}
  Nobody = Nobody
  BatchSize = 2
  MaxFaults = 3
  MaxDups = 0
  MaxLosses = 1
  MaxEntries = 5
INVARIANTS
  AcknowledgedIsFinal
PROPERTY ImplementsLifecycle
