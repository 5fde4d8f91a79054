SPECIFICATION Spec
CONSTANTS
    s1 = s1
    s2 = s2
    s3 = s3
    a = a
    b = b
    NoSid = NoSid
    Sids = {s1, s2, s3}
    Token = {a, b}
    MaxSeqs = 3
    NCtx = 4
    NBatch = 1
    MaxPrompt = 3
    MaxTokens <- ShortBudget
    Word = 64
SYMMETRY Symmetry
INVARIANTS
    SeqOwnership
    FreeSeqsAreEmpty
    CachedTokensInKV
    InFlightContext
    DecodedContextIsRequest
PROPERTIES
    CacheIsPrivate
    
