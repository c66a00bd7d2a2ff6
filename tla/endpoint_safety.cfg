SPECIFICATION Spec
CONSTANTS
  Plain = {v1, v2}
  Other = {v1}
  Unset = unset
  TooLarge = large
  Wrapped = wrapped
  Upper = upper
  Field = {"own", "ref", "other"}
  Tag = {t1}
  MaxEdits = 2
PROPERTIES PatchKeepsSpec SyncedMeansConfigured ImplementsPromise
CHECK_DEADLOCK FALSE
