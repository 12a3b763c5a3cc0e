\* A key is dropped before its owner is recorded.
CONSTANTS
    Keys = {"c"}
    Id <- OwnId
    Attrs = {"a"}
    Vals = {"", "1"}
    Special = {}
    Misread <- NothingMisread
    SpecAttrs <- OneSpec
    Syncs = {}
    Claims <- NoClaims
    Policies = {}
    PolicySpecs <- NoPolicySpecs
    Locals <- ProdOnly
    OtherKeys = {}
    Deregisters = FALSE
    Faults = {}
    MaxEdits = 2
    MaxFaults = 0
    MaxCrashes = 0
SPECIFICATION FairSpec
PROPERTIES StaleKeysGo
CHECK_DEADLOCK FALSE
