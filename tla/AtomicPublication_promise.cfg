\* Three attempts at one id under the fairness of the code, one change of content,
\* one loss of power: safety, refinement and liveness.
CONSTANTS
    Attempts = {a1, a2, a3}
    Files = {crop, record}
    Copied = {crop}
    Required = {crop, record}
    Checked = {crop}
    NoOne = NoOne
    Foreign = Foreign
    MaxTampers = 1
    MaxPowerLosses = 1
SPECIFICATION FairSpec
INVARIANTS
    TypeOK
    OneWriter
    LockHasLiveOwner
    VisibleIsWhole
    SuccessIsDurable
    FailureIsInvisible
PROPERTIES
    ImplementsPromise
    SealedForGood
    AttemptsEnd
    LockIsFreed
CHECK_DEADLOCK FALSE
