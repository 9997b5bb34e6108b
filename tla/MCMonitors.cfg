\* A window is four rounds; with one of them stale or missing it has its three samples.
SPECIFICATION Spec
CONSTANTS
  Null = Null
  Targets <- MCTargets
  Conditions <- MCConditions
  MinBucketSamples = 2
  MinTotalSamples = 3
  MinAnomalySamples = 2
  MinAnomalyBuckets = 2
  AnomalyWindow = 1
  AnomalyLimit = 2
  SaveEvery = 2
  SaveInterval = 2
  MaxSamples = 4
  Media = {"well", "full"}
  Rpm <- MCRpm
  Maf <- MCMaf
  BeforeRounds = 2
  AfterRounds = 1
  SlackRounds = 0
  MinEventGap = 2
  LagTolerance = 1
  MeanScale = 6
  MinWindowSamples = 3
  MinBaselineWindows = 1
  SaveEveryWindows = 1
  TransitionSaveInterval = 2
  MaxStarts = 2
INVARIANTS
  LossIsBounded
  AlarmsHaveACause
PROPERTIES
  FileKeepsLearning
  SavedWhenItCan
