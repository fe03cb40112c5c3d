SPECIFICATION FairSpec
CONSTANTS
  Units = {0, 1}
  NoUnit = NoUnit
  FirstLeader = 0
  Overrides = {}
  Invalid = {2}
  Broken = {3}
  Budget <- MCRecoverable
PROPERTY RolloutCompletes
