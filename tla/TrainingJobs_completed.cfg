\* One job that is running when the worker is stopped.
SPECIFICATION Spec
CONSTANTS
    Jobs = {j1}
    Payload <- Distinct
    Clients = {c1}
    NoJob = NoJob
    MaxStarts = 2
    MaxFaults = 0
INVARIANTS
    CompletedHasModel
CHECK_DEADLOCK FALSE
