\* A STRONG row whose report is lost with the failure of the other branch.
CONSTANTS
    Views = {v1}
    Primary = "anomaly"
    Me = Me
    NoOne = NoOne
    Foreign = Foreign
    MaxDamages = 0
SPECIFICATION Spec
INVARIANTS
    StrongIsReported
CHECK_DEADLOCK FALSE
