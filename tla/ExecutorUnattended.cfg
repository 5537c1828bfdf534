SPECIFICATION FairSpec
CONSTANTS
  Tools <- MCTools
  Permission <- MCPermission
  SideEffect = {"save", "send"}
  ParallelSafe = {"look"}
  RequiresLive = {"send"}
  UnattendedBlocked = {}
  VoiceAlwaysConfirms = {}
  AlwaysConfirms = {"save"}
  NeverAutoRetry = {"send"}
  ChainLength = 3
  Kind <- ResearchChain
  MaxIterations = 2
  MaxBatch = 2
  Source = "scheduled"
  AutonomyLevel = 4
  NoTool = NoTool
INVARIANTS
  HardGatesHold
PROPERTIES
  EventuallyOver
  ImplementsLifecycle
\* A request ends.
CHECK_DEADLOCK FALSE
