SPECIFICATION FairSpec
CONSTANTS
  Destinations = {d1, d2}
  Queries = {}
  Alternatives = {0}
  None = None
  Short = Short
PROPERTY DestinationGetsItsRoute
