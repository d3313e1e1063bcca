SPECIFICATION Spec
CONSTANTS
    c1 = c1
    c2 = c2
    c3 = c3
    c4 = c4
    u1 = u1
    u2 = u2
    u3 = u3
    u4 = u4
    NoConn = NoConn
    NoUid = NoUid
    Conns = {c1, c2, c3, c4}
    Uids = {u1, u2, u3}
    Hello <- VideoReconnect
    SendMaySuspend = FALSE
    MaxUnread = 1
INVARIANTS
    RelayAssertion
\* Every connection may be over: the server then waits for new ones.
CHECK_DEADLOCK FALSE
