SPECIFICATION Spec
CONSTANTS
    Jobs <- AllJobs
    Identifiers <- WellFormed
    Hosts <- HostList
    MaxDepth = 4
    MaxBundles = 12
    MaxEntries = 20
    MaxDomains = 2
    MaxAge = 1
    MaxAhead = 1
    MaxRuns = 3
    Clock = 4
INVARIANTS
    SealsHold
    EverythingSigned
    OwnProfile
    RootOfTrust
    OneProfilePerBundle
    OnlyNarrows
    HonestManifest
CHECK_DEADLOCK FALSE
