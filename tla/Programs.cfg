SPECIFICATION MCSpec
CONSTANTS
    Invocations = {i1, i2}
    Connections = {c1, c2}
    Runs = {r1, r2, r3}
    NoRun = NoRun
    NoRequest = NoRequest
    Concurrency = 1
    MaxQueuedRuns = 1
    MaxEntries = 1
    MaxAttempts = 2
    Agents <- TwoAgents
    HostRuns = {"e1", "e2", "e3"}
    AgentOf <- TwoForOne
    Requests = {"n1", "n2"}
    InvocationOf <- Twice
    Permits = 1
    MaxCrashes = 2
    Operators = {"o1", "o2"}
    MaxRestores = 3
    FailedNames <- TwoFailures
    MaxLosses = 2
    ManualAfter = {"preserve"}
    PyConnections = {"c"}
    PyRuns = {"r1", "r2"}
    EventRuns = {"r1"}
    EventAttempts = 1
SYMMETRY Symmetry
INVARIANTS
    StopSettlesAccepted
    UnsettledAreRemembered
    ProcessesAreAccountedFor
    RestoresAreSafe
    PythonRunsAreKept
PROPERTIES
    RerunOnlyAfterRetention
CHECK_DEADLOCK FALSE
