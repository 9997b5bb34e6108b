\* The inputs' timeouts are small but different from each other where the order
\* matters.
SPECIFICATION PartSpec
CONSTANTS
  Destinations = {d1, d2}
  Queries = {q1}
  Alternatives = {0, 1}
  None = None
  Short = Short
  GpsStale = 1
  SerialStale = 1
  CanStale = 1
  FixHold = 1
  Lost = 1
  Regain = 1
INVARIANTS
  ResultsMatchQuery
  GuidanceHasARoute
  HoldsAreBounded
PROPERTIES
  NewRoutesLeadToTheDestination
  NoMissedReroute
  RegainIsSustained
