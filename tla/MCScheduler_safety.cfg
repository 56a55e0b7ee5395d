CONSTANTS
    r1 = r1
    r2 = r2
    r3 = r3
    a = a
    e = e
    Request = {r1, r2, r3}
    Token = {a, e}
    Eos = e
    StopsAtEos = {r1, r2}
    NoRequest = NoRequest
    ContextLength = 5
    PrefillChunk = 2
    PrefixCapacity = 1
    Ragged = TRUE
    Prompt <- MCPrompt
    MaxNew <- MCMaxNew
    Sig <- MCSig
SPECIFICATION Spec
CHECK_DEADLOCK FALSE
INVARIANTS
    KVExact
    OnePlace
    PrefixCacheExact
PROPERTIES
    CancelStops
    EveryRequestRetires
