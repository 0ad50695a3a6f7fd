CONSTANTS
    ClockSkew = 1
    StreamId = "stream"
    Direction = "c2s"
    Issuer = "server"
    RevokedClientIds = {"carol"}
    Profiles = {"mutual", "simple"}
    Credentials <- MCCredentials
    Identity <- MCIdentity
    ChunkCount <- MCChunkCount
    MaxAttempts = 2
    MaxAccepts = 2
    MaxTime = 2
SPECIFICATION BootstrapSpec
INVARIANTS
    RootsAgree
    OneSessionPerHello
PROPERTY EventuallySettled
CHECK_DEADLOCK FALSE
