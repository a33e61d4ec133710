SPECIFICATION Spec
CONSTANTS
    www = www
    cli = cli
    p0 = p0
    None = None
    Listener = Listener
    NumStacks = 2
    SocketsPerStack = 2
    StreamsPerStack = 2
    Ports = {www, cli}
    Peers = {p0}
    RSS <- MCRSS
    MaxListeners = 1
    Backlog = 1
    MaxConnects = 2
    MaxCalls = 7
INVARIANTS
    SocketsExact
    LinksExact
    AcceptIsNew
CHECK_DEADLOCK FALSE
