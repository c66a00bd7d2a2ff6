SPECIFICATION Spec
CONSTANTS
  Doc = {d1, d2}
  Setting = {s1}
  Tag = {}
  Endpoint = {source}
  FullLoadOnly = TRUE
  StartChoice = {"unset", "yes", "no"}
  LayoutChoice = {"indented"}
  ConnChoice = {"successful"}
  MaxEdits = 2
PROPERTY StopKeepsUpdate
CHECK_DEADLOCK FALSE
