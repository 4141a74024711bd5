\* Two retrievers over two documents of three chunks and one, while one of them changes.
\* Outputs of up to six tokens in chunks of up to two.
\* Texts of up to six characters in four settings.
\* A session of two turns of two notifications, one of which may be skipped.
\* A turn of two messages of up to two deltas.
\* Two probes under limits of either order.
\* Three threads and up to three loads.
CONSTANTS
    Docs = {1, 2}
    Revs = {r1, r2}
    Chunks <- ThreeAndOne
    Retrievers = {1, 2}
    Weight <- EqualWeights
    Dense = {1}
    RrfK = 60
    MaxDepth = 2
    RerankDepth = 2
    TopK = 2
    HasReranker = TRUE
    RerankScores = {0, 1}
    MaxChanges = 1
    NotSearchable = NotSearchable
    Registry = Registry
    Failed = Failed
    p = p  a = a  x = x  sp = sp  nl = nl  dot = dot
    Letters = {p, a, x}
    Blanks = {sp, nl}
    Newline = nl
    Lines <- TwoLines
    MaxRaw = 6
    MaxChunk = 2
    NoVerdict = NoVerdict
    Characters = {x, dot, sp, nl}
    White = {sp, nl}
    Separators <- FourSeparators
    Settings <- Sizes
    MinSize = 2
    Cost <- DotIsDear
    TokenLimit = 3
    MaxText = 6
    MaxTurns = 2
    MaxNotes = 2
    MaxSkips = 1
    Messages = {m1, m2}
    MaxDeltas = 2
    Probes = {cache, vectors}
    Limits <- ShorterLongerEqual
    MaxClock = 5
    Workers = {w1, w2, w3}
    Nobody = Nobody
    MaxAttempts = 3
SPECIFICATION Spec
INVARIANTS
    FusionIsFair
    NothingIsStale
    TakesFirstCurrent
    FailsOnlyWhenItMust
    StreamMatchesParse
    HoldsBackOnlyVerdicts
    ChunksCover
    TurnHearsAll
    DeathIsTold
    ReadyIsQuiet
    TextIsWhole
    ReportIsRight
    LoadedOnce
\* Each of the parts comes to an end.
CHECK_DEADLOCK FALSE
