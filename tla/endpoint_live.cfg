SPECIFICATION FairSpec
CONSTANTS
  Plain = {v1, v2}
  Other = {v1}
  Unset = unset
  TooLarge = large
  Wrapped = wrapped
  Upper = upper
  Field = {"own", "ref", "other"}
  Tag = {}
  MaxEdits = 2
PROPERTIES DeletionCompletes ComesToRest
CHECK_DEADLOCK FALSE
