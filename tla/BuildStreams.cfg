\* Readers stay connected and read, channels have room, and the hub is terminated
\* or killed at any step.
CONSTANTS
    Environment = {e1}
    Job = {j1}
    Reader = {r1, r2}
    NoEnvironment = NoEnvironment
    NoJob = NoJob
    Cap = 4
    MaxChunks = 2
    Faults <- StreamFaults
SPECIFICATION PatientSpec
INVARIANTS IssuedKept ToldEndStands StreamExact SmokeRemoved
PROPERTIES InTimeStreamsEnd
