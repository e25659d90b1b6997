SPECIFICATION FairSpec
CONSTANTS
    c1 = c1
    c2 = c2
    Conn = {c1}
    NoConn = NoConn
    Token = {"get", "close"}
    Quota <- QuotaOne
    MaxTokens = 3
    MaxBatch = 2
    MaxWrites = 0
    Env = {"eagain", "eof", "throw", "refuse"}
CHECK_DEADLOCK FALSE
PROPERTIES RequestsProceed
