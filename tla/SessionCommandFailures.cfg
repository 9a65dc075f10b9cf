\* Only engine commands fail, and containers vanish.
CONSTANTS
    Session = {s1}
    Request = {r1, r2}
    ContainerId = {c1, c2}
    Main = Main
    NoId = NoId
    NoSession = NoSession
    DeleteRootfsOnStop = TRUE
    EnableExecLogPersist = TRUE
    Faults <- EngineFaults
SPECIFICATION Spec
SYMMETRY Symmetry
INVARIANTS PolicyNeverDegrades FailedCreateLeavesNothing StoppedRootfsDeleted
