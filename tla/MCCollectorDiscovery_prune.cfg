\* One collector, and somebody who creates and deletes its CR while the cache shows
\* neither.
CONSTANTS
    Keys = {"a"}
    Others = {"b"}
    LabelOf <- OneLabel
    Ids = {1}
    Names = {"n1"}
    CRName <- SameName
    Specs <- SomeSpecs
    Leftovers <- OldCRs
    Faults = {"5xx", "k8s", "k8sLost"}
    MaxEdits = 2
    MaxFaults = 0
SPECIFICATION Spec
PROPERTIES PresentIsNotPruned
CHECK_DEADLOCK FALSE
