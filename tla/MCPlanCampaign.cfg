SPECIFICATION CampaignSpec
CONSTANTS
  Capsule <- TwoMembers
  Stages <- TwoStages
  StageBudget = 1
  WindowBudget = 2
  GapBudget = 1
  MaxClock = 3
  MaxForeign = 1
  Leader = leader
  Workers = {w1, w2}
INVARIANTS AcceptedRanAsPlanned JudgedAtOneMoment
PROPERTY CaptureEnds
