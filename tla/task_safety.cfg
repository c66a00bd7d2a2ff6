SPECIFICATION Spec
CONSTANTS
  Doc = {d1, d2}
  Setting = {s1, s2}
  Tag = {t1}
  Endpoint = {source}
  FullLoadOnly = TRUE
  StartChoice = {"unset", "yes", "no"}
  LayoutChoice = {"raw", "indented"}
  ConnChoice = {"none", "successful"}
  MaxEdits = 2
INVARIANTS TypeOK NoOrphan DeleteFits CallsAreDue ModifyFits
PROPERTIES SyncedMeansApplied PatchOnlyReformats ImplementsPromise
\* The edits are bounded: without a resource and without an edit left nothing happens.
CHECK_DEADLOCK FALSE
