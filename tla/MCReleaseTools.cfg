SPECIFICATION MCSpec
CONSTANTS
  Warmups = 1
  Samples = 5
  MaxBatches = 3
  MaxIterations = 2000
  MinGrowth = 2
  MaxGrowth = 64
  TargetWall = 2000
  TargetTimed = 100
  MinimumWall = 1000
  MinimumTimed = 40
  PoolThreads = 4
  Line = 4
  Block = 16
  MinPage = 8
  MaxPage = 64
  Shapes <- OneShape
  HotspotCases <- TwoHotspots
  Reserved = {1, 2}
  PageSize = 8
  WallPace <- CampaignWallPace
  TimedPace <- CampaignTimedPace
  Profiles <- CampaignProfiles
  Modes = {"capture", "diagnose-complete", "qualify-baseline"}
  CandidateLevels = {60, 110, 130}
  Shifts = {0, 5, 8}
  Home = 21
  Elsewhere = 42
  MaxUpsets = 1
  MaxFailures = 1
  CaseWallPace <- FourWallPaces
  CaseTimedPace <- FourTimedPaces
  Foreign = 7
  Subjects <- FiveSubjects
  Paces = {35, 100, 150}
  MaxPaces = 2
  Limit <- TwoLimits
  StreamCases = {"encode_stream"}
  GatePaces = {100, 110, 115}
  MaxEdits = 2
  MaxOptions = 2
  Groups = {"g1", "g2"}
  Lengths = {1, 2}
  Means = {100, 104, 106}
  Threshold = 5
INVARIANTS
  ApprovedMeansMeasured
  RefusalsHaveCause
  PublishedTogether
  AcceptedMeansMeasured
  PassedMeansComparable
  AttributionEarned
CHECK_DEADLOCK FALSE
