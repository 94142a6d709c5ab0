SPECIFICATION Spec
CONSTANTS
  p1 = p1
  p2 = p2
  Spans <- MCSpans
  LinkSets <- MCLinkSets
  Missing = Missing
  NoReport = NoReport
  MaxRuns = 2
INVARIANTS
  TypeOK
  PublishedIsSupported
  ReportGapsAnswerAgree
  ReasonIsHighestPriority
  OneGapPerSpanAndAxis
PROPERTY RerunChangesNothing
