SPECIFICATION Spec
CONSTANTS
    s1 = s1
    s2 = s2
    s3 = s3
    a = a
    b = b
    NoSid = NoSid
    Sids = {s1, s2}
    Token = {a, b}
    MaxSeqs = 3
    NCtx = 5
    NBatch = 2
    MaxPrompt = 2
    MaxTokens <- ShortBudget
    Word = 64
SYMMETRY Symmetry
INVARIANT SampleFromOwnContext
