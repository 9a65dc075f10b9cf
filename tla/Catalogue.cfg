\* Two environments saved and read by two requests; one environment whose
\* image reference is edited, over three instants and three jobs; three
\* sessions listed in pages of one or two, over four instants of a second;
\* commands that write two chunks to each pipe; policies of three entries over
\* two destinations of each family; an image looked for three times; requests of
\* three paths; every source of every kind of setting.
CONSTANTS
    Env = {e1, e2}
    NoEnv = NoEnv
    Handler = {h1, h2}
    MaxWrites = 3
    ImageRef = {i1, i2}
    JobId = {1, 2, 3}
    MaxTime = 2
    Units = {4, 2}
    Session = {1, 2, 3}
    PageSizes = {1, 2}
    MaxNow = 3
    MaxChunks = 2
    PipeCapacity = 1
    ChunkCapacity = 1
    Address4 = {a1}
    Address6 = {b1}
    MaxEntries = 3
    MaxAttempts = 3
    ContainerdStore = TRUE
    RawPath <- MCRawPath
    MaxPaths = 3
    Absent = Absent
    Unreadable = Unreadable
    Amounts <- MCAmounts
    MaxDuration = 31
    Millisecond = 3
SPECIFICATION CatalogueSpec
SYMMETRY Symmetry
INVARIANTS
    CatalogueTypeOK
    StoreInvariant
    MetadataFollowsDockerfile
    ReadersFind
    AnsweredIsSaved
    ListComplete
    ListedOnce
    OutputExact
    NobodyStuck
    PolicyEnforced
    ExecAnswersAreTrue
    AnswersAreTrue
    MountsSound
    ConfigurationSound
PROPERTIES
    StaysLoadable
    DiscoveredOnlyUnknown
    OnlyTightens
