\* A reader disconnects while the build writes output.
CONSTANTS
    Environment = {e1}
    Job = {j1}
    Reader = {r1}
    NoEnvironment = NoEnvironment
    NoJob = NoJob
    Cap = 4
    MaxChunks = 2
    Faults = {"disconnect"}
SPECIFICATION Spec
INVARIANTS NeverPanics
