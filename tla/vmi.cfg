SPECIFICATION FairSpec
CONSTANTS
  a1 = a1
  a2 = a2
  n1 = n1
  IPs = {a1, a2}
  Nodes = {n1}
  None = None
  Other = Other
  Namesake = TRUE
  Owners = {TRUE, FALSE}
  Annotated = TRUE
  RetrySteps = 2
  MaxEvents = 2
INVARIANT TypeOK
PROPERTIES VmiReserveFirst VmiSticky VmiRecovers VmiConverges
