SPECIFICATION WorkerSpec
CONSTANTS
  Leader = leader
  Workers = {w1, w2}
  Capsule <- TwoMembers
  Stages <- TwoStages
  StageBudget = 1
  WindowBudget = 2
  GapBudget = 1
  MaxClock = 3
  MaxForeign = 1
INVARIANTS ReapedMeansGone OwnGroupSignalled AcceptedExitIsOwn
PROPERTY SupervisorReturns
