SPECIFICATION LedgerSpec
CONSTANTS
    Accounts = {"root", "left", "right", "child"}
    Chain <- Tree
    Dimensions <- Tokens
    Ceiling <- Tight
    Operated = {"root"}
    Actions = {"x1", "x2", "x3", "x4"}
    Account <- Owner
    Need <- Needs
    Deltas <- AdjustSome
    AdjustBound = 1
    Usages <- UsesNoneSomeMore
    Transactions = {t1, t2}
    StepIds = {"a", "b", "c"}
    InitialPlan <- PlannerFirst
    Patches <- PlannerPatches
    Proposals = {p1, p2}
    Passes = {"e1"}
    Effects = {"ALLOW", "DENY", "REQUIRE_APPROVAL"}
    MaxAttempts = 2
    Root = "root"
    Delegations = {p1, p2}
    Ordinals = {1}
    MaxDepth = 3
    RunDepth = 2
    MaxPerAttempt = 1
    Grants = {1}
    MaxTime = 1
    Replicas = {"p1"}
    SweepLimit = 1
    Foreign <- TwoForeign
    MaxEvents <- TwoThenOne
    EventTime = 2
    MaxHandling = 1
    StartupGrace = 1
    StaleAfter = 1
    Begins = {p1, p2}
    Completions = {"c1", "c2"}
    Resumes = {"r1"}
    Providers = {"q1", "q2"}
    MaxRevision = 3
    MaxFlows = 1
    MaxProbes = 2
    Invocations = {"i1"}
    MaxSends = 2
    MaxResults = 2
    MaxStops = 1
    MaxForeign = 1
    p1 = p1
    p2 = p2
    t1 = t1
    t2 = t2
INVARIANTS
    ChainsNeverDeadlock
CHECK_DEADLOCK FALSE
