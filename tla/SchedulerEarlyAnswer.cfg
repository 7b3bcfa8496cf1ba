\* A node that answers before schedule_next has recorded the task as running.
CONSTANTS
    t1 = t1
    t2 = t2
    n1 = n1
    n2 = n2
    d1 = d1
    d2 = d2
    NoTask = NoTask
    NoNode = NoNode
    Tasks = {t1, t2}
    Nodes = {n1}
    Dispatchers = {d1, d2}
    NumPriorities = 1
    Prio <- MCPrioSame
    Fits <- MCFitsAll
    MaxRetries = 1
    MaxCompleted = 1
    EvictCount = 1
    ResultCap = 1
SPECIFICATION Spec
INVARIANT
    AnswerableIsTracked
