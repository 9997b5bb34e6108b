SPECIFICATION ServiceSpec
CONSTANTS
  Tracks = {t1, t2}
  Other = Other
  None = None
  Attempts = 2
  MaxSaves = 2
  Codes = {c1, c2}
  NoCode = NoCode
INVARIANTS
  HeartIsTrue
  ScanIsWatched
PROPERTIES
  ScanIsAnswered
  EveryChainEnds
  ChecksEnd
  PlaybackIsFollowed
