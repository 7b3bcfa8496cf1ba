\* Two tasks in the last of two queues, one of which no node fits, two
\* concurrent dispatchers, a result channel of one slot, under fairness.
CONSTANTS
    t1 = t1
    t2 = t2
    n1 = n1
    n2 = n2
    d1 = d1
    d2 = d2
    NoTask = NoTask
    NoNode = NoNode
    Tasks = {t1, t2}
    Nodes = {n1}
    Dispatchers = {d1, d2}
    NumPriorities = 2
    Prio <- MCPrioLast
    Fits <- MCFitsNoneFirst
    MaxRetries = 0
    MaxCompleted = 2
    EvictCount = 1
    ResultCap = 1
SPECIFICATION FairSpec
PROPERTIES
    RunningIsReported
    SubmittedIsReported
