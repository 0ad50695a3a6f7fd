\* Every kind of record, definitions in flight across acknowledgements, retirements
\* and resyncs.
SPECIFICATION Spec
CONSTANTS
  Assemblies = {a}
  Schemas = {s}
  x = x
  y = y
  z = z
  Texts <- MixedTexts
  SegLen <- EqualLen
  MaxRecords = 3
  MaxRetires = 1
CHECK_DEADLOCK FALSE
INVARIANTS TypeOK ConfirmedInstalled ReferencesResolve CacheIsExact
PROPERTY EventuallyConfirmed
