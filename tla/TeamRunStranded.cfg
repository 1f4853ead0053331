SPECIFICATION Spec
CONSTANTS
  ada = ada
  bob = bob
  cyd = cyd
  p1 = p1
  NoAgent = NoAgent
  NoRun = NoRun
  Agents <- ThreeAgents
  Fragile <- OnlyBob
  Runs <- OnePrompt
  Strategies <- AllStrategies
  TurnLimits <- TwoOrThree
  MaxPosts = 2
SYMMETRY SteadySymmetry
INVARIANTS
  NoneStranded
CHECK_DEADLOCK FALSE
