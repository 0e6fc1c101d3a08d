SPECIFICATION Spec
CONSTANTS
    s1 = s1
    s2 = s2
    Steps = {s1, s2}
    DependsOn <- Chain
    OnFailure <- RetryThenStop
    MaxAttempts <- TwoThenOne
    Declares <- Governed
    AuthorityDeadline = FALSE
    ExclusiveRejection = TRUE
    WorkerOutcomes = {"succeeded", "failed"}
    ApiCancel = TRUE
    Engines = {e1, e2}
    Unreliable = {e1, e2}
    Dispatchers = {d1}
    AttemptBound = 3
    LeaseBound = 1
INVARIANTS
    WaitingHasRequest
    StepTellsLatestAttempt
    RetriesAreBounded
    DependenciesRespected
    CompletedMeansDone
PROPERTIES
    KeepsWorkAuthority
CHECK_DEADLOCK FALSE
