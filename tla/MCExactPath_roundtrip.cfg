CONSTANTS
    ChunkSize = 2
    SMALL = 4
    MIN_SAMPLES = 2
    MAX_SAMPLES = 3
    PatchModulus = 2
    LenModulus = 5
    SlotModulus = 4
    ValueModulus = 3
    Unquoted <- MCUnquoted
    Items = {i1, i2, i3}
    Docs <- MCDocs
    MaxEntries = 1
    MaxSends = 3
    MaxWire = 2
SPECIFICATION Spec
SYMMETRY Symmetric
CHECK_DEADLOCK FALSE
INVARIANT
    RoundTripExact
