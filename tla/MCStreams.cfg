\* Two CLI turns; two relayed turns of at most three frames; chat answers of at
\* most three deltas at two positions.
SPECIFICATION StreamsSpec
CONSTANTS
    t1 = t1
    t2 = t2
    a = a
    b = b
    x = x
    y = y
    Turns = {t1, t2}
    Foreign = Foreign
    None = None
    MaxFrames = 3
    MaxTurns = 2
    Inputs <- MCInputs
    Indexes = {0, 1}
    CallIds = {a}
    Pieces = {x, y}
    MaxDeltas = 3
CHECK_DEADLOCK FALSE
INVARIANTS ToldIsTrue  ChatIsWhole
PROPERTIES CliTurnsEndAndAreReaped
