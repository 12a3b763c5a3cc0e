\* Spec, source, secret and collectors change, with a fault and a crash.
CONSTANTS
    Keys = {"s"}
    Attrs = {"a"}
    Vals = {"1", "2"}
    Special = {}
    Misread <- NothingMisread
    Ids = {"c", "d"}
    Fields = {"f", "g"}
    MaxOwned = 1
    Specs <- SomeSpecs
    Answers <- SomeAnswers
    Collectors <- SomeCollectors
    Faults = {"5xx", "k8s", "k8sLost"}
    MaxEdits = 2
    MaxFaults = 1
SPECIFICATION FairSpec
INVARIANTS TypeOK ClaimsAreSelected
PROPERTIES ImplementsHandoff Settles
CHECK_DEADLOCK FALSE
