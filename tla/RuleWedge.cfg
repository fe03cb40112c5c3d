SPECIFICATION FairSpec
CONSTANTS
  Units = {0}
  FirstLeader = 0
  Sources = {1}
  Names = {"a", "b", "c", "d", "e"}
  Bodies = {1, 2}
  Documents <- MCDocuments
  Offers <- MCRenames
  Early = {1}
  Initial <- MCInitial
  Missing = Missing
  Malformed = Malformed
  Gone = Gone
  Foreign <- MCForeign
  Bytes <- MCBytes
  MaxBytes = 3
  MaxGroups = 1
  Batch = 2
  Budget <- MCTwoSlices
PROPERTY Converges
