CONSTANTS
    r1 = r1
    r2 = r2
    a = a
    e = e
    c1 = c1
    Request = {r1, r2}
    Token = {e}
    Eos = e
    StopsAtEos = {}
    NoRequest = NoRequest
    End = End
    ContextLength = 5
    PrefillChunk = 2
    PrefixCapacity = 1
    Ragged = FALSE
    Prompt <- MCPromptLive
    MaxNew <- MCMaxNewLive
    Sig <- MCSig
    Streaming = {r1}
    Speculative = {r2}
    MtpHeads = 2
    Control = {c1}
    Stoppable = FALSE
SPECIFICATION ServerSpec
CHECK_DEADLOCK FALSE
PROPERTIES
    Answered
    SyncRuns
