\* Two policies, a namespace whose labels change, requests with and without IDs.
CONSTANTS
    Keys = {"p", "q"}
    Usernames <- AllUsers
    Accounts <- Spelled
    Groups = {"g"}
    Matchers = {"m1", "m2", "m3", "bad"}
    Malformed = {"bad"}
    TooLong = {}
    Labels = {"x", "y"}
    Specs <- SomeSpecs
    Requests <- SomeRequests
    Faults = {"k8s", "k8sLost"}
    MaxEdits = 1
    MaxFaults = 1
SPECIFICATION FairSpec
INVARIANTS TypeOK StatusIsTrue WebhookIsStricter GovernedIsScoped UngovernedIsAdmitted
PROPERTIES StatusSettles
CHECK_DEADLOCK FALSE
