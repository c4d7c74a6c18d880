SPECIFICATION Spec
CONSTANTS
    codex = codex
    copilot = copilot
    gpt = gpt
    opus = opus
    k3 = k3
    new = new
    shout = shout
    g1 = g1
    g2 = g2
    Claude = Claude
    Kimi = Kimi
    Ollama = Ollama
    OpenCode = OpenCode
    None = None
    Backends = {codex, copilot, Claude, Kimi, Ollama, OpenCode}
    Models = {gpt, opus, k3, new, shout}
    ConfigRows <- MCConfigRows
    Seeds <- MCSeeds
    KimiModels = {k3}
    Catalog = {k3}
    Curated <- MCCurated
    Adapters = {copilot, Ollama, OpenCode}
    Getters = {g1, g2}
    Offers <- MCOffers
    CaseFolded <- MCCaseFolded
    MaxChanges = 1
    t = t
    u = u
    Bodies <- MCBodies
    Texts = {t, u, new}
    MaxBlockDepth = 1
    MaxEvents = 4
CHECK_DEADLOCK FALSE
INVARIANTS CatalogIsSound  StreamWellFormed
PROPERTIES CatalogNeverGoesBack
