SPECIFICATION FairSpec
CONSTANTS
  Plain = {v1}
  Unset = unset
  On = on
  Off = off
  TooLarge = large
  Wrapped = wrapped
  Major = {1}
  Minor = {1, 2}
  Field = {"EngineVersion", "AutoMinorVersionUpgrade"}
  Setting = {"EngineVersion", "AutoMinorVersionUpgrade"}
  Tag = {}
  MayFail = TRUE
  MaxEdits = 2
PROPERTIES KeepsAccepted SyncedMeansInPlace DeletionCompletes ComesToRest
CHECK_DEADLOCK FALSE
