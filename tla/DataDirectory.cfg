SPECIFICATION FairSpec
CONSTANTS
  Data = {d1, d2}
  WritesDuringMove = FALSE
  MaxAttachments = 3
  MaxInterruptions = 2
INVARIANTS TypeOK NothingLost DirectoryMatches FirstAttachmentInView
PROPERTIES HooksEnd
CHECK_DEADLOCK FALSE
