SPECIFICATION Spec
CONSTANTS
  Units = {0, 1}
  NoUnit = NoUnit
  FirstLeader = 0
  Overrides = {}
  Invalid = {}
  Broken = {}
  Budget <- MCTwoChanges
INVARIANT RestartExclusive
