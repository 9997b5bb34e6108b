\* The client and its source, safety and recovery.
SPECIFICATION Spec
CONSTANTS
  oil = oil
  Warnings <- MCWarnings
  Frames <- MCFrames
  Batches <- MCBatches
  ReplayFrames <- MCReplayFrames
  StaleTicks = 2
  InitialBackoffMs = 2
  MaxBackoffMs = 3
INVARIANT DataIsFresh
PROPERTIES
  LatchImplemented
  RecoversFromNoticedLoss
