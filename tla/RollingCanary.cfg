SPECIFICATION Spec
CONSTANTS
  Units = {0, 1, 2}
  NoUnit = NoUnit
  FirstLeader = 0
  Overrides = {}
  Invalid = {}
  Broken = {1}
  Budget <- MCCanary
INVARIANT BrokenContained
