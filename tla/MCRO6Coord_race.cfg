CONSTANTS
    p1 = p1
    p2 = p2
    p3 = p3
    s1 = s1
    s2 = s2
    t1 = t1
    t2 = t2
    Threads = {t1, t2}
    Pieces <- MCPieces
    Needs <- MCNeeds
    Server <- MCServer
    Kinds = {FALSE, TRUE}
    EarlyReturn = {FALSE, TRUE}
SPECIFICATION Spec
INVARIANT NoUseAfterFree
CHECK_DEADLOCK FALSE
