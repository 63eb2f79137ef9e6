\* Two tasks on pages of one, one request that changes a task, a frequent, a
\* rare and a broken expression, one failed page, one restart.
CONSTANTS
    often = often
    seldom = seldom
    broken = broken
    Tasks = {1, 2}
    Editors = {u1}
    Exprs = {often, seldom, broken}
    Occurs <- OccursMC
    Invalid = {broken}
    NoExpr = NoExpr
    NoTask = NoTask
    Deleted = Deleted
    NoEntry = NoEntry
    Limit = 1
    MaxParallel = 1
    MaxTime = 3
    MaxFailures = 1
    MaxRestarts = 1
SPECIFICATION Spec
INVARIANTS OccurrenceRunsOnce NoOccurrenceSkipped
PROPERTIES TasksAreServed
