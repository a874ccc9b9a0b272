\* Two jobs, one request at a time, a restart and a failed access to the database.
SPECIFICATION FairSpec
CONSTANTS
    Jobs = {j1, j2}
    Payload <- Distinct
    Clients = {c1}
    NoJob = NoJob
    MaxStarts = 2
    MaxFaults = 1
INVARIANTS
    TypeOK
    RunningIsWorked
    ModelIsExported
PROPERTIES
    CompletedIsFinal
    JobsEnd
CHECK_DEADLOCK FALSE
