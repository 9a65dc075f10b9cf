\* Containers are replaced outside the hub at any point, and every failure happens; directories
\* are deleted at stop.
CONSTANTS
    Session = {s1}
    Request = {r1, r2}
    ContainerId = {c1, c2, c3, c4}
    Main = Main
    NoId = NoId
    NoSession = NoSession
    DeleteRootfsOnStop = TRUE
    EnableExecLogPersist = TRUE
    Faults <- ReplaceFaults
SPECIFICATION FairSpec
INVARIANTS NamedContainerDown
PROPERTIES ImplementsLifecycle LocksReleased
