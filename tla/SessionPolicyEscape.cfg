\* The client goes away while its session is being created.
CONSTANTS
    Session = {s1}
    Request = {r1}
    ContainerId = {c1, c2}
    Main = Main
    NoId = NoId
    NoSession = NoSession
    DeleteRootfsOnStop = TRUE
    EnableExecLogPersist = TRUE
    Faults = {"client"}
SPECIFICATION Spec
INVARIANTS PolicyNeverDegrades
