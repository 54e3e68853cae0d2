SPECIFICATION FairSpec
CONSTANTS
  p1 = p1
  None = None
  Probes = {p1}
  MaxEvents = 3
INVARIANTS TypeOK ReloadPending ControllersLast
PROPERTIES TrustFollows ChecksEnd ControllersStart
