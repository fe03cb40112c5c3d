SPECIFICATION Spec
CONSTANTS
  Units = {0}
  FirstLeader = 0
  Sources = {1, 2}
  Names = {"a", "b", "c", "d", "e"}
  Bodies = {1, 2}
  Documents <- MCDocuments
  Offers <- MCAnyOffer
  Early = {1, 2}
  Initial <- MCInitial
  Missing = Missing
  Malformed = Malformed
  Gone = Gone
  Foreign <- MCForeign
  Bytes <- MCBytes
  MaxBytes = 3
  MaxGroups = 2
  Batch = 2
  Budget <- MCFailures
INVARIANTS TypeOK WorkRemaining NoGap CacheDecodes
PROPERTIES OwnerWithdraws RestoredIsCaptured
