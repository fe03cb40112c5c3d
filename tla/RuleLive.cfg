SPECIFICATION FairSpec
CONSTANTS
  Units = {0, 1}
  FirstLeader = 0
  Sources = {1, 2}
  Names = {"a", "b", "c", "d", "e"}
  Bodies = {1, 2}
  Documents <- MCDocuments
  Offers <- MCOwnOffers
  Early = {1}
  Initial <- MCLateInitial
  Missing = Missing
  Malformed = Malformed
  Gone = Gone
  Foreign <- MCForeign
  Bytes <- MCBytes
  MaxBytes = 4
  MaxGroups = 3
  Batch = 1
  Budget <- MCQuiet
INVARIANT AcceptedIsLive
PROPERTIES ImplementsNamespace Converges
