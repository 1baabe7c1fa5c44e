SPECIFICATION Spec
CONSTANTS
  d1 = d1  d2 = d2  BAD = BAD  ABORTED = ABORTED
  DefaultFormat <- Default
  Arguments <- SomeArguments
  Statements <- SomeStatements
  Found <- SomeFound
  Offered <- SomeOffered
  Contents <- SomeContents
  MaxArguments = 1
  MaxStatements = 1
INVARIANTS FileTimesUsed
