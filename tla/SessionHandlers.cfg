\* Every failure the hub can meet; stopped sessions keep their directories.
CONSTANTS
    Session = {s1, s2}
    Request = {r1, r2}
    ContainerId = {c1, c2}
    Main = Main
    NoId = NoId
    NoSession = NoSession
    DeleteRootfsOnStop = FALSE
    EnableExecLogPersist = TRUE
    Faults <- HubFaults
SPECIFICATION Spec
SYMMETRY Symmetry
INVARIANTS TypeOK ServiceInvariant ContainerInvariant RowKeepsRootfs ActiveIsPoliced
PROPERTIES SnapshotImmutable ExecutionLogClosed
