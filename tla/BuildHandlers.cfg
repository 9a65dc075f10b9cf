\* Every failure, and readers that may never read; a channel holds one event.
CONSTANTS
    Environment = {e1}
    Job = {j1, j2}
    Reader = {r1}
    NoEnvironment = NoEnvironment
    NoJob = NoJob
    Cap = 1
    MaxChunks = 1
    Faults <- FaultKind
SPECIFICATION FairSpec
INVARIANTS BuildInvariant
PROPERTIES ImplementsRecords BuildsEnd
