\* Both endpoints send at will and reads may be cut.
SPECIFICATION DuplexFairSpec
CONSTANTS
  NoSeed = NoSeed
  Bodies = {b1, b2}
  Seeds = {s1}
  PayloadCap = 2
  Large = {}
  MaxSends = 5
CHECK_DEADLOCK FALSE
INVARIANTS DuplexInOrder KeysSharedOnce
PROPERTY EventuallyReceived
