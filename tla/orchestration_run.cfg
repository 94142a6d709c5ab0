SPECIFICATION Spec
CONSTANTS
  r1 = r1
  r2 = r2
  p1 = p1
  p2 = p2
  p3 = p3
  a1 = a1
  a2 = a2
  a3 = a3
  k1 = k1
  k2 = k2
  q1 = q1
  q2 = q2
  q3 = q3
  Callers = {r1, r2, p1, p2, p3}
  Agents = {a1, a2, a3}
  Menu <- Requests
  Prompt <- OnePrompt
  Tokens <- Words
  Cites <- Citations
  MaxAgents = 2
  NoBudget = NoBudget
  MaxFaults = 1
INVARIANTS
  TypeOK
  LogTellsTheRun
  CallersAreToldTheTables
PROPERTIES
  ResolvedWhileEligible
