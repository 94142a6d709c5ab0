SPECIFICATION Spec
CONSTANTS
  s1 = s1
  s2 = s2
  s3 = s3
  e1 = e1
  e2 = e2
  Claims = {1, 2}
  Spans = {s1, s2, s3}
  SpansOf <- FoundIn
  Intact = {s1, s2}
  Events = {e1, e2}
  SpanOf <- Losses
  Pipe = Pipe
  Losers = {l1, l2}
  Nobody = Nobody
  MaxFaults = 3
SYMMETRY Symmetry
INVARIANTS
  TypeOK
  VersionStaysFree
  LedgerIsAChain
  PropagatedOnce
PROPERTIES
  SourceLostIsLast
  ImpactOnAnswerIsRecorded
  PublishedOnLatestEntries
