SPECIFICATION Spec
CONSTANTS
    c1 = c1
    c2 = c2
    Conn = {c1}
    NoConn = NoConn
    Token = {"get", "close", "post", "expect", "body", "bad"}
    Quota <- QuotaOne
    MaxTokens = 3
    MaxBatch = 2
    MaxWrites = 1
    Env = {"eagain", "eof", "error", "throw", "destroy", "head", "refuse"}
CHECK_DEADLOCK FALSE
INVARIANTS ConnectionSafe
