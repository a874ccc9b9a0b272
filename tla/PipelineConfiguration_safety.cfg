\* One request at a time, a stream loader and the inference worker, two models and one failure.
SPECIFICATION FairSpec
CONSTANTS
    Requests = {r1}
    Watchers = {loader}
    Sources = {s1}
    Models = {m1, m2}
    None = None
    MaxCommits = 2
    MaxFaults = 1
INVARIANTS
    TypeOK
    ReloadIsNeverLost
    RunningHasSource
PROPERTIES
    StaleModelIsReplaced
