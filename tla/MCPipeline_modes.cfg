\* Changes through annotations and flags, foreign pipelines, external deletions.
CONSTANTS
    Keys = {"p"}
    Namespace <- OneNamespace
    Specs <- PlainSpecs
    Annots <- ModeAnnots
    Scopes = {"none", "namespace"}
    Invalid = {}
    Faults = {"400", "404", "4xx", "lost", "k8s"}
    Foreign <- OneForeign
    ExternalDeletes = TRUE
    MaxEdits = 3
    MaxFaults = 1
    MaxCrashes = 1
SPECIFICATION Spec
INVARIANTS FinalizerBeforeFleet
PROPERTIES TrackedIsCleanedUp ObservedGenerationAdvances
CHECK_DEADLOCK FALSE
