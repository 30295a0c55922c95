SPECIFICATION Spec
CONSTANTS
    Reqs = {r1, r2}
    Opener = opener
    NoReq = noreq
    Msgs = {m1, m2}
    Kinds = {"check", "update", "read", "logout"}
    ListMayFail = FALSE
    MaxConnects = 3
INVARIANT NoCheckAstray
CHECK_DEADLOCK FALSE
