\* openrouter: one capability, two reservations, two ticks.  copilot: two
\* callers of one process or two, three ticks, one crash.  kimi: two requests
\* and four access tokens.
SPECIFICATION ProvidersSpec
CONSTANTS
    l1 = l1
    l2 = l2
    m1 = m1
    m2 = m2
    codex = codex
    claude = claude
    cap = cap
    i1 = i1
    i2 = i2
    Launchers = {l1, l2}
    Models = {m1, m2}
    Surfaces = {codex, claude}
    Allowlist = {m1, m2}
    SurfaceGrants <- MCSurfaceGrants
    Caps = {cap}
    Ids = {i1, i2}
    Amounts = {1, 2}
    RequestLimit = 2
    SessionLimit = 3
    FreshBound = 1
    MaxTtl = 1
    MaxNow = 2
    MaxCost = 4
    PolicyChoices <- MCChoices
    c1 = c1
    c2 = c2
    p1 = p1
    p2 = p2
    Callers = {c1, c2}
    Processes = {p1, p2}
    Skew = 1
    Stale = 2
    Lifetime = 2
    MaxExchange = 1
    MaxClock = 3
    MaxCalls = 1
    MaxCrashes = 1
    r1 = r1
    r2 = r2
    Requests = {r1, r2}
    MaxTokens = 4
    None = None
SYMMETRY Interchangeable
CHECK_DEADLOCK FALSE
INVARIANTS AdmissionIsSound  
 
