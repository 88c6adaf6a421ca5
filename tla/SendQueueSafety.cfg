SPECIFICATION Spec
CONSTANTS
  a = a
  b = b
  Job = {1, 2}
  Org = {a, b}
  OrgOf <- TwoOrgs
  MaxRetries = 2
  Batch = 2
  FailFirst = {0, 1}
  AutoSend = {TRUE, FALSE}
  MaxLost = 1
INVARIANTS AttemptsAgree CallsBounded
PROPERTIES EndedForever
