\* A change announced while the stream loader reloads.
SPECIFICATION Spec
CONSTANTS
    Requests = {r1}
    Watchers = {loader}
    Sources = {s1}
    Models = {m1, m2}
    None = None
    MaxCommits = 2
    MaxFaults = 1
INVARIANTS
    WaitingIsCurrent
