SPECIFICATION Spec
CONSTANTS
  ApkReleases = {1, 2}
  NetReleases = {3}
  None = None
  Failed = Failed
  Cores = {c1}
  Linking = {c1}
  Packaged = Packaged
  Stagers = {s1}
  Empty = Empty
  Torn = Torn
  Unset = Unset
INVARIANT UpdateTakesEffect
