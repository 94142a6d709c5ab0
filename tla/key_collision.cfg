SPECIFICATION Spec
CONSTANTS
  t1 = t1
  t2 = t2
  Tasks = {t1, t2}
  Keys = {t1}
  KeyOf <- SharedKey
  Workers = {w1}
  Nobody = Nobody
  BatchSize = 2
  MaxFaults = 0
  MaxDups = 0
  MaxLosses = 0
  MaxEntries = 4
INVARIANT AcknowledgedIsFinal
