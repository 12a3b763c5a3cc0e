\* Layers, users and another client change things; every fault; a crash.
CONSTANTS
    Keys = {"c"}
    Id <- OwnId
    Attrs = {"a", "b", "o"}
    Vals = {"", "1"}
    Special = {}
    Misread <- NothingMisread
    SpecAttrs <- SomeSpecs
    Syncs = {1}
    Claims <- SomeClaims
    Policies = {1}
    PolicySpecs <- OnePolicySpec
    Locals <- BothLocals
    OtherKeys = {"o"}
    Deregisters = FALSE
    Faults = {"400", "429", "lost", "k8s"}
    MaxEdits = 3
    MaxFaults = 1
    MaxCrashes = 1
SPECIFICATION Spec
INVARIANTS TypeOK FinalizerBeforeFleet
PROPERTIES OthersUntouched RecordedIsCleanedUp RecordedIsWritten
CHECK_DEADLOCK FALSE
