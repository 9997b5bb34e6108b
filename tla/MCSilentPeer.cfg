\* A connection whose peer vanished without closing it.
SPECIFICATION Spec
CONSTANTS
  oil = oil
  Warnings <- MCWarnings
  Frames <- MCFrames
  Batches <- MCBatches
  ReplayFrames <- MCReplayFrames
  StaleTicks = 2
  InitialBackoffMs = 2
  MaxBackoffMs = 3
PROPERTY RecoversFromAnyLoss
