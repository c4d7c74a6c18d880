\* Three callers and a shutdown at any time; three requests of the seam.  Callers all
\* answered and requests all gone out is a legal end.
SPECIFICATION SupervisedSpec
CONSTANTS
    r1 = r1
    r2 = r2
    r3 = r3
    Callers = {r1, r2, r3}
    Requests = {r1, r2, r3}
    None = None
CHECK_DEADLOCK FALSE
INVARIANTS OneChild CloseReaps NoPhantomSlot
PROPERTIES OnlyOwnCancellation   EveryRequestGoesOut
