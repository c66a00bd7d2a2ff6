SPECIFICATION FairSpec
CONSTANTS
  Plain = {v1, v2}
  Mixed = v1
  Lower = v2
  Unset = unset
  Tag = {t1}
  MaxEdits = 2
  Field = {"CertificatePem", "KMSKeyID", "EventCategories", "SourceIDs", "Name", "SubnetIDs"}
  Required = {"Name", "SubnetIDs"}
INVARIANTS ModifyFits
PROPERTIES TagsDespiteRefusal WritesWhatHolds ImplementsPromise DeletionCompletes ComesToRest

\* The edits are bounded: without a resource and without an edit left nothing happens.
CHECK_DEADLOCK FALSE
