\* Three requests on one key: a turn can fail or be recycled while a second
\* request waits on its session and a third one makes the next session.
SPECIFICATION Spec
CONSTANTS
    r1 = r1
    r2 = r2
    r3 = r3
    k1 = k1
    Requests = {r1, r2, r3}
    Keys = {k1}
    Streaming = {r3}
    CodexKeys = {k1}
    Blind = {}
    Sweeper = Sweeper
    None = None
SYMMETRY UnarySymmetry
INVARIANTS SessionsAreSerial SpawnsOnlyMissing
PROPERTIES  TurnsInOrder
