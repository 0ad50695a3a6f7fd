\* Emits, rekeys, drains and sends in any order, with failing traces, drains into
\* an unconfirmed rekey and records after a Close.
SPECIFICATION FairSpec
CONSTANTS
  NoSeed = NoSeed
  Bodies = {b1, b2}
  Seeds = {s1}
  PayloadCap = 2
  Large = {b2}
  MaxRecords = 4
  MaxDropped = 1
  Sdk = FALSE
CHECK_DEADLOCK FALSE
INVARIANTS AcceptedPrefix PackingKeepsRecords CountersInStep
PROPERTY EventuallyApplied
