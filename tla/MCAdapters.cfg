SPECIFICATION MCSpec
CONSTANTS
    r1 = r1
    r2 = r2
    r3 = r3
    Requests = {r1, r2, r3}
    Setups <- MCSetups
    k1 = k1
    k2 = k2
    McpCalls = {k1, k2}
    NoCall = NoCall
    Servers <- MCServers
    Attempts = 1
    MaxLinks = 2
    q1 = q1
    q2 = q2
    q3 = q3
    al = al
    bo = bo
    NoOne = NoOne
    HttpReqs = {q1, q2, q3}
    Callers = {al, bo}
    Shapes <- MCShapes
    HttpConfigs <- MCHttpConfigs
    AgentLimit = 1
    Burst = 1
    MaxBuckets = 1
    IdleTicks = 1
    MaxTick = 3
    Missing = Missing
    Policies <- MCPolicies
    Questions <- MCQuestions
    ContextKeys = {"role"}
    ReadyReqs = {1, 2}
    Deployments <- MCDeployments
    Contents <- MCContents
    NoDoc = NoDoc
    Size <- MCSize
    Relevance <- MCRelevance
    DocIds = {1, 2}
    Budgets <- MCBudgets
    NSources = 2
    MaxHttp = 2
    StreamAnswers <- MCAnswers
    NoName = NoName
SYMMETRY Interchangeable
INVARIANTS SideEffectsGuarded  ConnectionSound    ContextSound Reassembled
CHECK_DEADLOCK FALSE
