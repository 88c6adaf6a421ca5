SPECIFICATION FairSpec
CONSTANTS
  a = a
  b = b
  Job = {1, 2}
  Org = {a}
  OrgOf <- OneOrg
  MaxRetries = 2
  Batch = 1
  FailFirst = {0}
  AutoSend = {TRUE}
  MaxLost = 1
PROPERTIES ImplementsAtLeastOnce
