SPECIFICATION Spec
CONSTANTS
  Null = Null
  NoisySamples = 3
  NoisyRates = 2
  NoisyTurns = 1
  HistoryLimit = 3
  MaxActiveFindings = 2
  ExpectedContexts <- MCContexts
  EnoughFrames = 3
  EnoughDuration = 10
  Frames <- MCDriveFrames
  Sidecars <- MCSidecars
  FramePeriod = 1
  WallEpoch = 0
  BaselineModels = 1
  TransitionModels = 1
  ShapeSamples = 2
  FlapSamples = 3
  FlapTurns = 1
  MaxFrames = 3
  MaxRuns = 1
  StandardPids <- MCStandardPids
  MaxWarnings = 1
  Runs = {r1, r2}
  SessionIds = {s1}
  Dirs = {d1}
  CanLogs <- MCCanLogs
  ObdLogs <- MCObdLogs
  MaxCommands = 1
  Pids <- MCPids
  Supported = {4, 12, 13}
  InitCommands = 1
  SupportedFilter = TRUE
  IncludeErrors = TRUE
  MaxPolls = 3
  Dictionaries <- MCDictionaries
  RecordedLogs <- MCRecordedLogs
  Repeats = {TRUE, FALSE}
  StaleAfter = 1
  MaxReplayTime = 6
  MinSamples = 8
  Targets = {"rpm", "speedKph"}
  Payload = 2
  Measurements <- MCMeasurements
  CanIds = {"2C1", "0B4"}
  Specs <- MCSpecs
  FieldCount = 2
  Windows = TRUE
  MaxCandidates = 1
  VerifiedConfidence = 8500
  MinConfidence = 8500
  Profiles <- MCProfiles
  FieldSpecs <- MCFieldSpecs
  Packets = {"2C1", "0B4"}
  Responses <- MCResponses
  ReportSizes = {0, 1, 2}
  MaxPayload = 3
  MaxBuffer = 17
  Streams <- MCStreams
INVARIANT HealthyMeansNoFindings
CHECK_DEADLOCK FALSE
