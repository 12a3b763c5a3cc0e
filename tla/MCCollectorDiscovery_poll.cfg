\* A discovery, a same-named one elsewhere, users, two collectors with a CR name each,
\* caches as late as they like, a fault or a crash.
CONSTANTS
    Keys = {"a"}
    Others = {"b"}
    LabelOf <- OneLabel
    Ids = {1, 2}
    Names = {"n1", "n2"}
    CRName <- OwnName
    Specs <- SomeSpecs
    Leftovers <- FinalizedCRs
    Faults = {"5xx", "k8s", "k8sLost"}
    MaxEdits = 1
    MaxFaults = 1
SPECIFICATION FairSpec
INVARIANTS TypeOK PollScheduled SyncedIsOfSpec
PROPERTIES Converges
CHECK_DEADLOCK FALSE
