SPECIFICATION Spec
CONSTANTS
  t1 = t1
  t2 = t2
  Tasks = {t1}
  Keys = {t1}
  KeyOf <- OwnKeys
  Workers = {w1, w2}
  Nobody = Nobody
  BatchSize = 2
  MaxFaults = 2
  MaxDups = 1
  MaxLosses = 0
  MaxEntries = 4
PROPERTY HeldIsTerminal
