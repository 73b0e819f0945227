SPECIFICATION Spec
CONSTANTS
    e1 = e1
    e2 = e2
    e3 = e3
    acc1 = acc1
    acc2 = acc2
    c1 = c1
    c2 = c2
    NoEvent = NoEvent
    Events = {e1, e2, e3}
    Aggregates = {acc1, acc2}
    Agg <- MCAgg
    Copies = {}
    CopyOf <- MCNoCopies
    Rank <- MCRank
    SeqSources = {"store"}
    Limit = 2
    MaxInstant = 3
    Faults = {"query", "mark"}
    MaxFaults = 1
    MaxDirect = 0
    MaxRestarts = 1
    Stoppers = {"s1", "s2"}
INVARIANTS
    SlotFilled
    RetiredInOrder
    StopFlushes
    StopQuiesces
PROPERTIES
    Settled
    StopReturns
CHECK_DEADLOCK FALSE
