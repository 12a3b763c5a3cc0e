\* A read-only import beside the Pipeline reconciler, with a selector that may turn its
\* pipeline down.
CONSTANTS
    Keys = {"p"}
    Namespace <- OneNamespace
    Specs <- On
    Annots <- NoAnnots
    Scopes = {"none"}
    Invalid = {}
    Faults = {"k8sLost"}
    Foreign <- NoNames
    ExternalDeletes = TRUE
    MaxEdits = 1
    MaxFaults = 1
    MaxCrashes = 0
    Discoveries = {"d"}
    CRName <- OneName
    FromGrafana = {}
    DSpecs <- ReadOnlySpecs
SPECIFICATION DFairSpec
INVARIANTS DTypeOK
PROPERTIES ReadOnlyImportIsPassive ImportConverges
CHECK_DEADLOCK FALSE
