CONSTANTS
    a = a
    e = e
    r1 = r1
    r2 = r2
    Parts = {"speculation", "paged", "radix", "buffer", "attention", "offload", "tools", "weights",
             "branches"}
    Vocab = {a, e}
    Eos = e
    StopsAtEos = TRUE
    PromptLen = 1
    MaxNew = 5
    MtpHeads = 2
    ContextLength = 7
    Request = {r1, r2}
    Token = {a, e}
    NLayer = 2
    NBlocks = 3
    BlockSize = 2
    MaxTokens = 4
    Chunk <- MCChunk
    NoRequest = NoRequest
    Zero = Zero
    Requests = {r1, r2}
    Prompts <- Branching
    PrefillChunk = 2
    CapacityNodes = 5
    MaxSize = 2
    Batch = 3
    MaxStarts = 2
    MinCounts <- MCMinCounts
    Layers = {"l1", "l2"}
    Latent = {"l2"}
    OffloadPrompt = 3
    OffloadChunk = 2
    OffloadBudget = 3
    MaxSaves = 3
    MaxReloads = 2
    ToolPrompt = 2
    ToolBudget = 6
    ToolContext = 9
    MaxTurns = 3
    ResultLengths = {1, 2, 4}
    EosSet = TRUE
    Linears = {"lm_head", "expert"}
    Experts = {"expert"}
    Tied = TRUE
    Modes = {"none", "int8-weight", "int4-weight", "fp4-expert"}
    Ids = {1, 2, 3, 4}
    MaxUpdates = 3
    Branch = {r1, r2}
    BranchVocab = {a, e}
    BranchEos = e
    BranchPrompt <- MCBranchPrompt
    BranchBudgets = {0, 1, 2, 3, 4, 5}
    MaxRounds = 3
    BranchContext = 6
    Rows = {r1, r2}
    LayerKinds = {"sliding_mqa", "mla", "hca", "csa"}
    Window = 2
    HcaBlock = 2
    CsaBlock = 2
    CsaStride = 1
    TopK = 1
    AttentionContext = 5
SPECIFICATION PartsSpec
CHECK_DEADLOCK FALSE
INVARIANTS
    AnswerIsGreedy
    BlocksAccounted
    GatherExact
    TreeExact
    SamplesConserved
    AttentionExact
    ResumesWhole
    TranscriptExact
    BranchesExact
PROPERTIES
    EvictsColdestLeaf
    DrainsEnough
    DrainReturns
    ForwardIsCurrent
