SPECIFICATION TransitionSpec
CONSTANTS
  Null = Null
  Media = {"well"}
  Rpm <- MCRpm
  Maf <- MCMaf
  BeforeRounds = 2
  AfterRounds = 1
  SlackRounds = 0
  MinEventGap = 2
  LagTolerance = 1
  MeanScale = 6
  MinWindowSamples = 3
  MinBaselineWindows = 1
  SaveEveryWindows = 1
  TransitionSaveInterval = 2
  MaxStarts = 2
INVARIANT OnlyStartsAreJudged
