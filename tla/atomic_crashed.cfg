SPECIFICATION FairSpec
CONSTANTS
  f1 = f1
  f2 = f2
  x = x
  y = y
  d1 = d1
  d2 = d2
  d3 = d3
  Files = {f1, f2}
  Data = {x, y}
  None = None
  Dirs = {d1, d2, d3}
  Payloads <- MCWholePayloads
  HandMade = {}
  Unreadable = {}
  Renewals = 1
  Faults = 0
  Crashes = 1
  Budget <- MCBudget
PROPERTY Published
