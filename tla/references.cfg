SPECIFICATION FairSpec
CONSTANTS
  task = task
  instance = instance
  group = group
  Resource = {task, instance, group}
  KindOf <- MCKindOf
  Referents <- MCReferents
  MaxEdits = 3
PROPERTIES ResolvesInTime SyncedMeansResolved DeletionsComplete AllBecomeReady

\* Without a resource and without an edit left nothing happens.
CHECK_DEADLOCK FALSE
