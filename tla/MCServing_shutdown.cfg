CONSTANTS
    r1 = r1
    r2 = r2
    a = a
    e = e
    c1 = c1
    Request = {r1, r2}
    Token = {a, e}
    Eos = e
    StopsAtEos = {r1}
    NoRequest = NoRequest
    End = End
    ContextLength = 4
    PrefillChunk = 2
    PrefixCapacity = 1
    Ragged = FALSE
    Prompt <- MCPrompt
    MaxNew <- MCMaxNewOne
    Sig <- MCSig
    Streaming = {}
    Speculative = {}
    MtpHeads = 1
    Control = {c1}
    Stoppable = TRUE
SPECIFICATION ServerSpec
CHECK_DEADLOCK FALSE
INVARIANTS
    ShutdownAnswersAll
