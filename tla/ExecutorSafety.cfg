SPECIFICATION Spec
CONSTANTS
  Tools <- MCTools
  Permission <- MCPermission
  SideEffect = {"save", "send"}
  ParallelSafe = {"look"}
  RequiresLive = {"send"}
  UnattendedBlocked = {}
  VoiceAlwaysConfirms = {}
  AlwaysConfirms = {}
  NeverAutoRetry = {"send"}
  ChainLength = 2
  Kind <- ClaudeThenOpenAI
  MaxIterations = 3
  MaxBatch = 2
  Source = "chat"
  AutonomyLevel = 3
  NoTool = NoTool
INVARIANTS
  TypeOK
  OneVoice
  HarmlessFailure
  LateAttempts
PROPERTIES
  CancelIsVisible
  CancelledIsNeverCompleted
\* A request ends.
CHECK_DEADLOCK FALSE
