\* Both carriers, and a server that may rekey, drain its control plane and trace
\* invalid events at any time.
SPECIFICATION FairSpec
CONSTANTS
  NoSeed = NoSeed
  Bodies = {b1, b2}
  Seeds = {s1}
  MaxSent = 4
CHECK_DEADLOCK FALSE
INVARIANTS PrefixDelivery SingleUseKeys EpochNumbering NoFalseReject
PROPERTIES ImplementsOrderedDelivery EventuallyDelivered
