SPECIFICATION Spec
CONSTANTS
  p0 = p0
  p1 = p1
  a1 = a1
  a2 = a2
  n1 = n1
  n2 = n2
  Pods = {p0, p1}
  Foreign = {p1}
  IPs = {a1, a2}
  Nodes = {n1, n2}
  None = None
  Recreates = 1
  Faults = 1
  Crashes = 0
  Deletes = 0
  MaxOthers = 1
  Budget <- MCBudget
  RetrySteps = 2
  FailurePolicy = "Ignore"
  CacheGetFails = FALSE
  Annotated = TRUE
SYMMETRY MCSymmetry
PROPERTY StickyIP
