CONSTANTS
    MIN_RANGE_REUSE = 2
    Unit = 12
    TINY = 1
    MAX_REFS = 3
    MAX_PER_STEP = 2
    MIN_COMPONENT = 1
    MAX_SUFFIX = 2
    MAX_PATCH = 2
    MaxBlocks = 2
    Kind = "Text"
    Payloads <- MCPayloads
    Materials <- MCMaterials
    Graphs <- MCGraphs
    Held <- MCHeld
    Byte = 8
    BLOCK_LEN = 3
    Digit = 2
    MAX_DIGITS = 5
    U16 = 4
    U32 = 16
    Family <- MCFamily
    CodedItems <- MCItems
    Batches <- MCBatches
SPECIFICATION RebuildSpec
INVARIANTS
    ProgramsDecodeExactly
    TransformsRebuild
    GraphsRunByLevels
    
CHECK_DEADLOCK FALSE
