SPECIFICATION FairSpec
CONSTANTS
  Worker = {w1, w2, w3}
  RmId = {i1, i2}
INVARIANTS NoMapRace FewManagers
PROPERTY CallsReturn
