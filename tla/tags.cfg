SPECIFICATION Spec
CONSTANTS
  UserKey = {k1, k2}
  AWSKey = {aws}
  SystemKey = {k2}
  SystemText = v1
  Text = {v1, v2}
  Empty = empty
  Nil = nil
  MaxLength = 2
  MaxEdits = 2
INVARIANTS ComparisonsAgree
PROPERTIES SyncApplies TagsStayApart
