SPECIFICATION Spec
CONSTANTS
  Plain = {v1, v2}
  Unset = unset
  On = on
  Off = off
  TooLarge = large
  Wrapped = wrapped
  Major = {1}
  Minor = {1, 2}
  Field = {"EngineVersion", "AllocatedStorage", "AutoMinorVersionUpgrade"}
  Setting = {"EngineVersion", "AllocatedStorage", "AutoMinorVersionUpgrade"}
  Tag = {t1}
  MayFail = TRUE
  MaxEdits = 2
PROPERTIES SyncedMeansAccepted NeverAsksTwice ImplementsPromise

CHECK_DEADLOCK FALSE
