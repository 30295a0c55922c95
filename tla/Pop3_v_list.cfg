SPECIFICATION Spec
CONSTANTS
    Reqs = {r1, r2}
    Opener = opener
    NoReq = noreq
    Msgs = {m1, m2}
    Kinds = {"check", "update", "read", "logout"}
    ListMayFail = TRUE
    MaxConnects = 3
PROPERTY SentRight
CHECK_DEADLOCK FALSE
