SPECIFICATION LocalSpec
CONSTANTS
    None = None
    claude = claude  direct = direct  m1 = m1  m2 = m2  minimax = minimax  mini = mini
    other = other  gpt = gpt  kimi = kimi
    Claude = claude
    DefaultModel = gpt
    Routed = {claude, direct}
    Optional = {direct}
    Direct = {minimax}
    Variants = {mini}
    Offers <- MCOffers
    BackupsKept = 1
    Launchers = {kimi}
    PathEntries <- MCPathEntries
    StartFiles <- MCStartFiles
    UserTexts <- MCUserTexts
    MaxRuns = 2
    MaxEdits = 1
    MaxSecond = 2
    Paths = {1, 2, 3}
    Parent <- Directory
    MaxGroupEdits = 2
    MaxFaults = 2
CHECK_DEADLOCK FALSE
INVARIANTS NoNeedlessChange ReplacedIsKept ClientsWork 
PROPERTIES UserFilesStay
