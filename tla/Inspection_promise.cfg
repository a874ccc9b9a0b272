\* Two views and one damaged file under the fairness of the code: safety, the
\* promise of a verdict, and the end of an inspection.
CONSTANTS
    Views = {v1, v2}
    Primary = "anomaly"
    Me = Me
    NoOne = NoOne
    Foreign = Foreign
    MaxDamages = 1
SPECIFICATION FairSpec
INVARIANTS
    TypeOK
    ReleaseIsEarned
    StrongIsNeverDropped
    PublishedIsWhatWasScored
    NoReaderLeftBehind
    NoOutcomeForACause
PROPERTIES
    ImplementsVerdict
    InspectionEnds
CHECK_DEADLOCK FALSE
