SPECIFICATION MCSpec
CONSTANTS
    o1 = o1  o2 = o2
    c1 = c1  c2 = c2
    p1 = p1  p2 = p2
    Ops = {o1, o2}
    Callers = {c1, c2}
    Processes = {"p1"}
    ProcessOf <- OneProcess
    Scans = {"r1"}
    Settings <- Surroundings
    Tasks = {"a", "b"}
    Batches <- Teams
    Slips <- Misstatements
    Decisions = {"ACCEPT", "CONTINUE", "FAIL", "WAIT_FOR_HUMAN", "garbage"}
    MaxIterations = 2
    MaxWorkersPerIteration = 2
    MaxTotalWorkers = 2
    MaxRevisions = 3
    Passes = {p1, p2}
    Effects = {"ALLOW", "DENY", "REQUIRE_APPROVAL"}
    Troubles = {"late"}
    Starts = {"s1", "s2"}
    Heirs = {"h1"}
    Threads = {"t1", "t2"}
    Command <- Commands
    Isolated = {"s1"}
    NoTree = NoTree
    LeaseSettings <- Deliveries
SYMMETRY Alike
INVARIANTS
    LoopIsSound
    RunsHoldWorkspaces
    ReleasesAreExclusive
    ClaimsAreRecoverable
PROPERTIES
    EndedStaysEnded
CHECK_DEADLOCK FALSE
