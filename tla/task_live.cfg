SPECIFICATION FairSpec
CONSTANTS
  Doc = {d1, d2}
  Setting = {s1}
  Tag = {t1}
  Endpoint = {source}
  FullLoadOnly = TRUE
  StartChoice = {"yes", "no"}
  LayoutChoice = {"indented"}
  ConnChoice = {"successful"}
  MaxEdits = 2
PROPERTIES DeletionCompletes StartTakesEffect StopTakesEffect SpecConverges
CHECK_DEADLOCK FALSE
