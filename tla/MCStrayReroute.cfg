SPECIFICATION Spec
CONSTANTS
  Destinations = {d1, d2}
  Queries = {q1}
  Alternatives = {0, 1}
  None = None
  Short = Short
INVARIANT RerouteIsUnderWay
