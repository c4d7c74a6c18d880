\* Two requests, every choice of a Codex key and a Claude key whose sentinel the
\* probe takes for busy.
SPECIFICATION FairSpec
CONSTANTS
    r1 = r1
    r2 = r2
    r3 = r3
    k1 = k1
    k2 = k2
    Requests = {r1, r3}
    Keys = {k1, k2}
    Streaming = {r3}
    CodexKeys = {k1}
    Blind = {k2}
    Sweeper = Sweeper
    None = None
PROPERTIES  IdleSessionsGo
