\* Two requests over each adapter; requests all ended is a legal end.
SPECIFICATION FairSpec
CONSTANTS
    r1 = r1
    r2 = r2
    Requests = {r1, r2}
    Kinds = {"buffered", "preflight", "chat"}
    MaxFragments = 2
    MaxMarks = 1
    MaxFaults = 1
    Forms = {"compressed"}
CHECK_DEADLOCK FALSE
INVARIANTS HeardIsKept AnswersAreWellFormed
PROPERTIES ChainCarriesThePast SecondRunOnlyInSilence RequestsEndAndLeaveNothing
