\* Policies of every shape the index knows, Collectors that come and go.
CONSTANTS
    Keys = {"p"}
    Attrs = {}
    Vals = {}
    Special = {}
    Misread <- NothingMisread
    Ids = {1, 2}
    Selectors <- KnownShapes
    Collectors <- SomeCollectors
    MaxMatched = 1
    Faults = {"k8s", "k8sLost"}
    MaxEdits = 3
    MaxFaults = 1
SPECIFICATION FairSpec
INVARIANTS TypeOK MatchedIsCurrent
PROPERTIES Settles
CHECK_DEADLOCK FALSE
