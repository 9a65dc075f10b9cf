\* A reader that is slower than the build.
CONSTANTS
    Environment = {e1}
    Job = {j1}
    Reader = {r1}
    NoEnvironment = NoEnvironment
    NoJob = NoJob
    Cap = 1
    MaxChunks = 1
    Faults = {}
SPECIFICATION Spec
INVARIANTS ClosedAfterComplete
