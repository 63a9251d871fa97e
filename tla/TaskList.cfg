CONSTANTS
    Agents = {a, b}
    Teammates = {a}
    Watchers = {b}
    Nobody = nobody
    TheList = list
    NumTasks = 2
    MaxId = 3
    MaxCalls = 2
    MaxFailures = 1
SPECIFICATION Spec
INVARIANTS TypeOK OneWorker IdsAreFresh DependenciesKept
PROPERTIES ClaimsRespectBlockers 
CHECK_DEADLOCK FALSE
