\* A reader subscribes while the build ends.
CONSTANTS
    Environment = {e1}
    Job = {j1}
    Reader = {r1}
    NoEnvironment = NoEnvironment
    NoJob = NoJob
    Cap = 4
    MaxChunks = 2
    Faults = {}
SPECIFICATION PatientSpec
PROPERTIES StreamsEnd
