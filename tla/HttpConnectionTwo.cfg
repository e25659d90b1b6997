SPECIFICATION Spec
CONSTANTS
    c1 = c1
    c2 = c2
    Conn = {c1, c2}
    NoConn = NoConn
    Token = {"get", "close", "bad"}
    Quota <- QuotaTwo
    MaxTokens = 2
    MaxBatch = 2
    MaxWrites = 0
    Env = {"throw", "destroy", "eof"}
CHECK_DEADLOCK FALSE
INVARIANTS TypeOK ServerInv DispatchSafe
PROPERTIES ImplementsService
