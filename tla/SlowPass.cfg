SPECIFICATION Spec
CONSTANTS
    Tasks = {"a"}
    Batches <- OneWorker
    Slips <- Honest
    Actions = {"ACCEPT"}
    MaxIterations = 1
    MaxWorkersPerIteration = 1
    MaxTotalWorkers = 1
    MaxRevisions = 1
    Passes = {p1, p2}
    Effects = {"ALLOW"}
    Troubles = {}
PROPERTIES
    WorkingFailsForAWorker
CHECK_DEADLOCK FALSE
