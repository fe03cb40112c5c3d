SPECIFICATION Spec
CONSTANTS
  Units = {0, 1}
  NoUnit = NoUnit
  FirstLeader = 0
  Overrides = {1}
  Invalid = {}
  Broken = {}
  Budget <- MCAnything
INVARIANTS TypeOK NoLostRestart
PROPERTY PendingClearedByRestart
