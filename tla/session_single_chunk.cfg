SPECIFICATION FairSpec
CONSTANTS
    s1 = s1
    s2 = s2
    s3 = s3
    a = a
    b = b
    NoSid = NoSid
    Sids = {s1, s2}
    Token = {a, b}
    MaxSeqs = 2
    NCtx = 3
    NBatch = 4
    MaxPrompt = 2
    MaxTokens <- Budgets
    Word = 64
INVARIANT TokensMatchKV
PROPERTY RequestCompletes
