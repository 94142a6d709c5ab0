SPECIFICATION FairSpec
CONSTANTS
  t1 = t1
  t2 = t2
  t3 = t3
  e1 = e1
  e2 = e2
  e3 = e3
  e4 = e4
  e5 = e5
  Tasks = {t1, t2, t3}
  Entries = {e1, e2, e3, e4, e5}
  Spans = {1, 2}
  Cites <- CitesOf
  Contains <- Quotes
  Numbers <- NumbersIn
  MaxFaults = 1
INVARIANTS
  TypeOK
  VersionsNeverCollide
  AuditTellsTheTables
  GateReadsOwnOrNewer
PROPERTIES
  EveryTaskIsDecided
