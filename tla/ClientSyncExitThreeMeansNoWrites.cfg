\* An apply, an uninstall and the refresh, with two events of the gateway, the
\* user and failing or dying processes.
SPECIFICATION Spec
CONSTANTS
    N = 2
    Ollama = 1
    operator = operator
    uninstaller = uninstaller
    scheduler = scheduler
    Syncs = {operator, uninstaller, scheduler}
    Kind <- Kinds
    Absent = Absent
    UserFile = UserFile
    NoListing = NoListing
    Nobody = Nobody
    MaxEvents = 2
    MaxRuns = 1
CHECK_DEADLOCK FALSE
INVARIANT ExitThreeMeansNoWrites
