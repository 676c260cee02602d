SPECIFICATION ServerSpec
CONSTANTS
    Conns = {c1}
    Scripts <- MCScripts
    BufferSize = 3
    MsgSize = 2
    MaxPayload = 4
    MaxSessions = 2
    CompactAt = 3
INVARIANTS
    CutsDoNotMatter
    NoMissedEdge
PROPERTIES
    ArrivedIsRead
CHECK_DEADLOCK FALSE
