CONSTANTS
    r1 = r1
    r2 = r2
    a = a
    e = e
    c1 = c1
    Request = {r1, r2}
    Token = {a, e}
    Eos = e
    StopsAtEos = {r1}
    NoRequest = NoRequest
    End = End
    ContextLength = 4
    PrefillChunk = 1
    PrefixCapacity = 1
    Ragged = FALSE
    Prompt <- MCPrompt
    MaxNew <- MCMaxNewStream
    Sig <- MCSig
    Streaming = {r1, r2}
    Speculative = {}
    MtpHeads = 2
    Control = {}
    Stoppable = TRUE
SPECIFICATION ServerSpec
CHECK_DEADLOCK FALSE
INVARIANTS
    CancelNotLost
    NoOrphan
PROPERTIES
    AnswerFrozen
    StreamsKeepPromise
