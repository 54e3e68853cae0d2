SPECIFICATION FairSpec
CONSTANTS
  f1 = f1
  f2 = f2
  x = x
  y = y
  d1 = d1
  d2 = d2
  d3 = d3
  d4 = d4
  d5 = d5
  Files = {f1, f2}
  Data = {x, y}
  None = None
  Dirs = {d1, d2, d3, d4, d5}
  Payloads <- MCPayloads
  HandMade = {}
  Unreadable = {}
  Renewals = 1
  Faults = 2
  Crashes = 1
  Budget <- MCBudget
INVARIANTS TypeOK DataComplete GarbageBounded OneFailureNeverBlocks
PROPERTIES AtomicUpdate NilMeansVisible PublishedUnlessBlocked
