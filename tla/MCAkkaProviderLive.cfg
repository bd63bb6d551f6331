CONSTANTS
    p1 = p1
    p2 = p2
    c1 = c1
    spike = spike
    parser = parser
    missing = missing
    Clients = {c1}
    Classes = {spike, parser, missing}
    Unloadable = {missing}
    Fragile = {parser}
    MaxRefs = 3
    Payloads = {p1, p2}
    Replies <- MCReplies
    NoReply = NoReply
    Handle <- MCHandle
    MaxAsks = 3

SPECIFICATION FairSpec
PROPERTIES
    ImplementsActionService
    EveryCallReturns
    DeadIsForgotten
CHECK_DEADLOCK FALSE
