\* Two turns of one (workspace, provider) pair at the same time.
SPECIFICATION Spec
CONSTANTS
    r1 = r1
    r2 = r2
    r3 = r3
    k1 = k1
    Requests = {r1, r2, r3}
    Keys = {k1}
    Streaming = {r3}
    CodexKeys = {k1}
    Blind = {}
    Sweeper = Sweeper
    None = None
INVARIANT OneTurnPerKey
