\* The hub crashes at any step and starts again with a working engine and store, while containers
\* are also started again outside it.
CONSTANTS
    Session = {s1, s2}
    Request = {r1, r2}
    ContainerId = {c1, c2}
    Main = Main
    NoId = NoId
    NoSession = NoSession
    DeleteRootfsOnStop = TRUE
    EnableExecLogPersist = FALSE
    Faults = {"crash", "cleanup", "restart"}
SPECIFICATION FairSpec
INVARIANTS ServedSessionsRun
PROPERTIES ReconcileCloses
