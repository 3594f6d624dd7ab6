SPECIFICATION MCFairSpec
CONSTANTS
    Absentees = {c2, f2}
    Clients = {c1, c2}
    Workers = {w1, w2}
    Finishers = {f1, f2}
    Jobs = {j1, j2, j3}
    ItemsPerThread = 1
    max_jobs = 1
    NoJob = NoJob
    NoClient = NoClient
INVARIANTS NoLostWakeup CompletionAccounting
PROPERTIES ImplementsJobQueue JobServed WaitersReturn
