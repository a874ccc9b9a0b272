\* A second RETAKE under the id of the first one.
CONSTANTS
    Runs = {r1, r2}
    Ids = {set1}
    Cameras = 2
    Rounds = 2
    Settle = 1
    Retries = 1
    NoOne = NoOne
SPECIFICATION Spec
INVARIANTS
    RetakeIsQuarantined
CHECK_DEADLOCK FALSE
