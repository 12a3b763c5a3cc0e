\* An upgraded install whose name-scope migration meets one 5xx.
CONSTANTS
    Keys = {"p"}
    Namespace <- OneNamespace
    Specs <- PlainSpecs
    Annots <- NoAnnots
    Scopes = {"namespace"}
    Invalid = {"bad"}
    Faults = {"5xx"}
    Foreign <- NoNames
    ExternalDeletes = FALSE
    MaxEdits = 1
    MaxFaults = 1
    MaxCrashes = 0
SPECIFICATION FairSpec
PROPERTIES Converges
CHECK_DEADLOCK FALSE
