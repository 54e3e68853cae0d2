SPECIFICATION FairSpec
CONSTANTS
  a1 = a1
  n1 = n1
  IPs = {a1}
  Nodes = {n1}
  None = None
  Other = Other
  Namesake = FALSE
  Owners = {FALSE}
  Annotated = TRUE
  RetrySteps = 1
  MaxEvents = 1
PROPERTY VmiGetsRecord
