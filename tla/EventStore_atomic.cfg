SPECIFICATION Spec
CONSTANTS
    w1 = w1
    w2 = w2
    acc1 = acc1
    Free = Free
    Writers = {w1, w2}
    Aggregates = {acc1}
    Target <- MCTarget
    BatchSize <- MCBatchSize
    MaxCalls = 1
    MaxFaults = 1
    MaxRestarts = 0
INVARIANTS
    AppendAtomic
