\* An invalid capture that the sink refuses to publish.
CONSTANTS
    Views = {v1}
    Primary = "anomaly"
    Me = Me
    NoOne = NoOne
    Foreign = Foreign
    MaxDamages = 1
SPECIFICATION Spec
INVARIANTS
    InvalidCaptureIsReported
CHECK_DEADLOCK FALSE
