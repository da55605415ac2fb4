SPECIFICATION Spec
CONSTANTS
  Agents = {a, b}
  Tasks = {t1, t2}
  NoTask = NoTask
  MaxDay = 2
  Keys = {k1, k2}
  Text = Text
  Blank = Blank
  Unsupported = Unsupported
  Add = Add
  Sub = Sub
  MaxNumber = 1
  Nodes = {n1, n2}
  NoNode = NoNode
  Texts = {"a", "b"}
  Frames <- MCFrames
  TaskIds = {i1, i2}
  Targets = {1, 2}
  Enemies <- MCEnemies
  MaxCalls = 4
  Kinds = {"jade", "power"}
  Unreadable = Unreadable
  Worlds <- MCWorlds
  MaxPagesScan = 2
  MaxPagesSearch = 3
  GroupPages = 5
  TeamPages = 4
  MaxMisses = 1
  Builders = {p, q}
  Nobody = Nobody
  MaxRuns = 2
  RecoDocs <- MCRecoDocs
  Documents <- MCDocuments
  ActDocs <- MCActDocs
  MaxTasks = 1
  MaxNodes = 2
  Default = Default
  Tickets = {0, 19, 20, 30}
  BountyPages = 5
  Jobs = {"j1", "j2"}
  Bonuses = {"exp", "gold"}
  Challenges <- MCChallenges
  MaxRounds = 2
  Moments = 5
  Weights = {0, 2, 4}
SYMMETRY Symmetry
CONSTRAINT NotDamaged
CHECK_DEADLOCK FALSE
INVARIANTS
  TypeOK
  DailyRecordsHonest
  ConfigKeepsAcknowledged
  MatchesAreEarned
  BestRewardChosen
  ChosenTeamFights
  PairedWithPartner
  DetailMatchesTask
  ScriptsDoAsAsked
