\* Two clients; MaxLag, WatchdogSec and PetInterval keep the order of 5, 15, 7.5 s.
\* Enough faults for a run of wrong frames that sets the clock, and more; a disk
\* with a budget of one event, which the next fault or a leftover pushes out.
SPECIFICATION HubSpec
CONSTANTS
  Clients = {c1, c2}
  MaxLag = 1
  WatchdogSec = 3
  PetInterval = 1
  Payloads = {"idle", "go"}
  Lengths = {4, 8}
  SignalOf <- MCSignal
  Epsilon = 5
  MinStale = 1
  StaleMultiplier = 2
  Grace = 2
  Retention = 2
  TimingSamples = 2
  IntervalLimit = 3
  StuckSamples = 2
  StuckWindow = 2
  ValueLimit = 2
  Periods = {1, 3}
  MaxChanges = 4
  Required = 3
  Recheck = 3
  Retry = 2
  MaxError = 3
  Faults = 6
  Fingerprints = {1, 2, 3}
  Long = {3}
  Ids = {1, 2, 3}
  MaxFiles = 1
  Interval = 1
  Dates = {0, 1}
  None = None
INVARIANTS
  StallIsBounded
  RegistryMatchesConnections
  SilenceIsNoticed
  DirectoryBounded
PROPERTIES
  OpenClientServed
  RhythmIsRelearned
  LastingFaultsAreKept
  WrongTimeNeedsAWrongRun
  ClockComesRight
