\* Two processes, two cameras, two rounds, single and HDR acquisition.
CONSTANTS
    Runs = {r1, r2}
    Ids = {set1}
    Cameras = 2
    Rounds = 2
    Settle = 1
    Retries = 1
    NoOne = NoOne
SPECIFICATION FairSpec
INVARIANTS
    TypeOK
    FramesAreTheirs
    TriggeredAfterToken
    CompleteIsEarned
    AnswersAreTrue
    EvidenceIsKept
PROPERTIES
    PlacesAreFinal
    RunsEnd
CHECK_DEADLOCK FALSE
