CONSTANTS
  f1 = f1
  f2 = f2
  Profile <- MCProfile
  Layout <- MCLayout
  Contents <- MCContents
  NoProfile = NoProfile
  MaxTransfers = 3
SPECIFICATION Spec
INVARIANT WrittenAsTheyAre
CHECK_DEADLOCK FALSE
