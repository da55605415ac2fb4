SPECIFICATION Spec
CONSTANTS
  Taskers = {t1}
  Resources = {r1}
  Controllers = {c1}
  Server = Server
  SinkIds = {s1}
  Zero = Zero
  Names = {n1}
  Ids = {i1, i2}
  MaxCallbacks = 2
  MaxObjects = 2
  Sorts = {"sink", "action", "controller"}
  Threads = {a, b}
  None = None
  MaxOpens = 2
INVARIANTS
  EntryFollowsObject
  EntryMatchesFramework
  NoCallbackLeak
  NoCircularWait
  LibrariesFollowInited
SYMMETRY Symmetry
