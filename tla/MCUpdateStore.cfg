SPECIFICATION Spec
CONSTANTS
  ApkReleases = {1, 2}
  NetReleases = {3}
  None = None
  Failed = Failed
  Cores = {c1, c2}
  Linking = {c1}
  Packaged = Packaged
  Stagers = {s1, s2}
  Empty = Empty
  Torn = Torn
  Unset = Unset
INVARIANTS
  ActiveIsComplete
  LoadedFilesStay
  PrepareFailsOnlyAfterTrouble
  SelectedUnlessShared
  FailedCoreIsNotRetried
  SomeThreadGoesOn
SYMMETRY Symmetry
