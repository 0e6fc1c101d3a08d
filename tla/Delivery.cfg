SPECIFICATION Spec
CONSTANTS
    s1 = s1
    s2 = s2
    Steps = {s1}
    DependsOn <- Independent
    OnFailure <- RetryThenStop
    MaxAttempts <- TwoThenOne
    Declares <- Budgeted
    AuthorityDeadline = FALSE
    ExclusiveRejection = FALSE
    WorkerOutcomes = {"succeeded", "failed", "timed_out"}
    ApiCancel = TRUE
    Engines = {e1}
    Unreliable = {e1}
    Dispatchers = {d1, d2}
    AttemptBound = 3
    LeaseBound = 2
INVARIANTS
    TypeOK
    OneActiveAttempt
    OutboxMatchesAttempt
    ReservationMatchesAttempt
    AppliedResultIsOutcome
PROPERTIES
    TerminalFactsFrozen
CHECK_DEADLOCK FALSE
