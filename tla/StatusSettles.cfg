SPECIFICATION FairSpec
CONSTANTS
  Plain = Plain
  Unsupported = Unsupported
  Override = Override
  NoConfig = NoConfig
  OtherText = OtherText
  Configs <- MCConfigs
  Refused <- MCRefused
  Legacy <- MCLegacy
  MaxEvents = 3
  MaxErrors = 1
INVARIANTS TypeOK NoHiddenIncompletion
PROPERTIES UpdateStatusTells Settles
