SPECIFICATION Spec
CONSTANTS
  ada = ada
  bob = bob
  cyd = cyd
  p1 = p1
  NoAgent = NoAgent
  NoRun = NoRun
  Agents <- ThreeAgents
  Fragile <- OnlyBob
  Runs <- OnePrompt
  Strategies <- AllStrategies
  TurnLimits <- TwoOrThree
  MaxPosts = 2
SYMMETRY SteadySymmetry
INVARIANTS
  TypeOK
  TurnsOwned
  TurnsFollowStrategy
  TurnsSee
  TurnsKept
CHECK_DEADLOCK FALSE
