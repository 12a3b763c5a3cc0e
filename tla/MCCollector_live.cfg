\* Changes of every layer, transient faults, a crash: the system settles.
CONSTANTS
    Keys = {"c"}
    Id <- OwnId
    Attrs = {"a", "b"}
    Vals = {"", "1"}
    Special = {}
    Misread <- NothingMisread
    SpecAttrs <- OneSpec
    Syncs = {1}
    Claims <- SomeClaims
    Policies = {1}
    PolicySpecs <- OnePolicySpec
    Locals <- BothLocals
    OtherKeys = {}
    Deregisters = TRUE
    Faults = {"429", "lost", "k8sLost"}
    MaxEdits = 3
    MaxFaults = 1
    MaxCrashes = 0
SPECIFICATION FairSpec
PROPERTIES Converges
CHECK_DEADLOCK FALSE
