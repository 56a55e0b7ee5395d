CONSTANTS
    Parts = {"pretraining"}
    r1 = r1
    r2 = r2
    r3 = r3
    r4 = r4
    r5 = r5
    a = a
    e = e
    Request = {r1, r2, r3, r4, r5}
    Token = {a, e}
    Eos = e
    StopsAtEos = {r1, r4}
    NoRequest = NoRequest
    ContextLength = 5
    PrefillChunk = 2
    PrefixCapacity = 1
    Ragged = FALSE
    Prompt <- MCPrompt
    MaxNew <- MCMaxNew
    Sig <- MCSig
    Batches <- MCBatches
    MaxUpdates = 2
    RunSteps = 5
    RunBatches = 2
    SaveEvery = 2
    Warmup = 2
    Schedule = "cosine"
    Micro = 2
    Optimizers = {"adamw", "adafactor", "muon"}
    MaxCrashes = 2
    Phases <- MCPhases
    CurriculumSteps = 5
    PhaseBatches = 2
    PhaseRows = 3
    Accum = 2
    Dirs = {"d1", "d2"}
    Vocabs = {"v1", "v2"}
    StageUpdates = 2
    MaxStages = 3
    Algorithms = {"grpo", "ppo", "rloo", "distill"}
    Prompts = 2
    GroupSize = 3
    PolicySteps = 3
    MaxAttempts = 3
    Rewards = {0, 1, 3}
    Threshold = 1
    TunePairs <- MCPairs
    MaxPairs = 3
    MaxPrompt = 2
    MaxResponse = 3
    TuneContext = 4
    BatchSize = 2
    TuneSteps = 3
    NTests = 2
    PartialCredit = {TRUE, FALSE}
    DataTokenizers = {"t1", "t2"}
    DataLengths = {1, 2}
    MaxRows = 2
    DataBlocks = {2, 3}
    DataBatch = 2
    MaxPacks = 2
    Base = 2
    MaxMerges = 3
    MinPairCount = 2
    MaxDoc = 6
    MaxText = 5
SPECIFICATION PartsSpec
CHECK_DEADLOCK FALSE
INVARIANTS
    ResumeIsExact
