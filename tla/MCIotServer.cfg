CONSTANTS
    server = server
    w1 = w1
    w2 = w2
    job = job
    c0 = c0
    c1 = c1
    c2 = c2
    c3 = c3
    Main = main
    None = None
    Stacks = {c0}
    Cores = {c0, c1, c2, c3}
    Apps = {server, w1, w2, job}
    Configs <- MCConfigs
    Returning = {job}
    CAP_REDIS_BUFFER = 2
    EventRing = 2
    Mbufs = 1
    MaxRequests = 4
SPECIFICATION Spec
INVARIANTS ContextsExact SwitchesToThreads ForwardedExactly QueryPassedOnce
PROPERTIES EveryRequestDone StackRunsAgain
