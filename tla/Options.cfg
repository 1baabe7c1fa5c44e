SPECIFICATION Spec
CONSTANTS
  d1 = d1  d2 = d2  BAD = BAD  ABORTED = ABORTED
  DefaultFormat <- Default
  Arguments <- SomeArguments
  Statements <- SomeStatements
  Found <- SomeFound
  Offered <- SomeOffered
  Contents <- SomeContents
  MaxArguments = 3
  MaxStatements = 3
INVARIANTS TypeOK SettingsResolved IncludesInPlace
