\* Changes that bump metadata.generation, transient faults, a crash: consistency, and it settles.
CONSTANTS
    Keys = {"p"}
    Namespace <- OneNamespace
    Specs <- AllSpecs
    Annots <- NoAnnots
    Scopes = {"none"}
    Invalid = {"bad"}
    Faults = {"429", "5xx", "lost", "k8s", "k8sLost"}
    Foreign <- NoNames
    ExternalDeletes = FALSE
    MaxEdits = 3
    MaxFaults = 1
    MaxCrashes = 1
SPECIFICATION FairSpec
INVARIANTS TypeOK CopiesAgree FinalizerBeforeFleet SyncedMeansApplied
PROPERTIES TrackedIsCleanedUp NeverDeleteUnrebuildable ObservedGenerationAdvances Converges
CHECK_DEADLOCK FALSE
