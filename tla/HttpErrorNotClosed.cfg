SPECIFICATION Spec
CONSTANTS
    c1 = c1
    c2 = c2
    Conn = {c1}
    NoConn = NoConn
    Token = {"get", "bad"}
    Quota <- QuotaOne
    MaxTokens = 3
    MaxBatch = 2
    MaxWrites = 0
    Env = {}
CHECK_DEADLOCK FALSE
INVARIANT ClosedOnceDrained
