CONSTANTS
    MaxEvents = 3
    MaxNodes = 2
    MaxContexts = 2
    MaxTraces = 2
    MaxSlots = 2
    MaxOrder = 2
    MaxBranches = 2
    RecentWindow = 8
    StatsLimit = 256
    StatsAge = 256
    PruneEvery = 64
    WindowLimit = 8
    MaxHints = 2
    MaxRetires = 2
    Items = {1, 2}
    Contents <- MCContents
    Announced <- MCAnnounced
    Sources = {2}
    Requests <- MCRequests
    Bundles <- MCBundles
    Schemas <- MCSchemas
    Classes <- MCClasses
    Assemblies <- MCAssemblies
    Transforms <- MCTransforms
    Tokenized <- MCTokenized
    Acks <- MCAcks
    Activations <- MCActivations
    HostJobs <- MCHostJobs
    MaxUses = 4
    Overheads <- MCOverheads
    Decodings <- MCDecodings
    SymbolBytes = 160
    MaxEntries = 1
    MaxSteps = 4
    MaxControl = 2
SPECIFICATION Spec
CHECK_DEADLOCK FALSE
INVARIANTS
    ReceivedIsExact
    AdmissibleResolves
    CreditsBalance
    TracesDistinct
    FamiliesMirrorObjects
