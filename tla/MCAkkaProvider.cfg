CONSTANTS
    p1 = p1
    c1 = c1
    c2 = c2
    spike = spike
    parser = parser
    missing = missing
    Clients = {c1, c2}
    Classes = {spike, parser, missing}
    Unloadable = {missing}
    Fragile = {parser}
    MaxRefs = 3
    Payloads = {p1}
    Replies <- MCReplies
    NoReply = NoReply
    Handle <- MCHandle
    MaxAsks = 2

SPECIFICATION Spec
SYMMETRY Symmetry
INVARIANTS
    TypeOK
    OneActorPerClass
    NoOrphan
    StaleIsTransient
    AnswerIsOwn
CHECK_DEADLOCK FALSE
