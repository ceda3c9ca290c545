CONSTANTS
    c1 = c1
    c2 = c2
    s1 = s1
    p = p
    q = q
    TaskCount = 3
    Callers <- MCCallers
    ServiceOf <- MCServiceOf
    MaximumParallel = 2
    ProviderOf <- MCProviderOf
    PerProvider = 1
    Budget = 1
    Checked = {1}
    Asking = {3}
    Reported = {"success", "pending"}
    Costs = {1}
    Graphs <- MCGraphs
    CommandBound <- MCCommandBound
    CrashBound = 1
SPECIFICATION FairSpec
INVARIANTS
    NeverStuck
    DependenciesFirst
    ExecutorBounds
    UsageTraceable
PROPERTIES
    InterruptHeld
    CommandsReturn
CHECK_DEADLOCK FALSE
