SPECIFICATION FairSpec
CONSTANTS
  Txns = {t1, t2}
  Scopes = {s1, s2}
  NoTxn = NoTxn
  NoScope = NoScope
  NoHash = NoHash
  MaxRecords = 3
INVARIANTS
  TypeOK
  ChainsVerify
  NoUniqueViolation
  VerifyRejectsDamage
PROPERTY AppendsEnd
