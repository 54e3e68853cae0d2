SPECIFICATION FairSpec
CONSTANTS
  p1 = p1
  None = None
  Probes = {p1}
  MaxEvents = 1
PROPERTY ClientFollowsFile
