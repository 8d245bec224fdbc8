CONSTANTS
  Align = 8
  MaxLayers = 4
  MaxDim = 8
  MaxElems = 24
  MR = 2
  NR = 3
  KC = 2
  MinChunk = 2
  Generations = 3
  HofEvery = 1
  HofRecent = 1
  HofArchive = 1
  Skills = {1, 2}
  n1 = n1
  n2 = n2
  auth1 = auth1
  auth2 = auth2
  foe1 = foe1
  foe2 = foe2
  NodeIds = {n1, n2}
  Authorities = {auth1, auth2}
  MaxIdentities = 2
  MaxFolders = 1
  MaxBundles = 2
  MaxTime = 2
  CaLife = 1
  MaxLife = 3
  Backdate = 1
  MaxFiles = 5
  MaxFileBytes = 4
  MaxUnpacked = 7
  MaxBundle = 14
  Overhead = 1
  Attackers = {foe1, foe2}
  Rules <- RuleSet
  Substeps = 2
  Duration = 2
  MaxSteps = 3
  Drones = 3
  Targets = {1, 2}
  SurveyTime = 2
  MaxSurvey = 3
  MaxPeers = 2
  MaxWatchdog = 60
  ModelLimit = 1
  RamLimit = 1
  InputLimit = 1
  OutputLimit = 2
  Rejected = Rejected
  MaxName = 4
  MaxMembers = 4
  MaxPacked = 6
  Labels = 3
SPECIFICATION Spec
SYMMETRY Symmetric
INVARIANTS  PackagesWork ProcessesInvisible TrainingKept FleetKept EngagementsExact ReportsExact BatteryFair ConfigSound
CHECK_DEADLOCK FALSE
