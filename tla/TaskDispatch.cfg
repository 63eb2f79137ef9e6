\* One task with two targets at a time; a registry with room for one
\* waiter; two attempts of the cleanup; one restart.
CONSTANTS
    r1 = r1
    r2 = r2
    b1 = b1
    Runs = {r1, r2}
    Batches = {b1}
    BatchOf <- OneBatch
    MaxConcurrent = 2
    MaxWaiters = 1
    MaxAttempts = 2
    SlowDb = FALSE
    MaxRestarts = 1
SPECIFICATION Spec
CHECK_DEADLOCK FALSE
INVARIANTS ReplyIsRecorded
PROPERTIES ResultIsFinal 
