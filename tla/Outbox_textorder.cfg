SPECIFICATION Spec
CONSTANTS
    e1 = e1
    e2 = e2
    e3 = e3
    acc1 = acc1
    acc2 = acc2
    c1 = c1
    c2 = c2
    NoEvent = NoEvent
    Events = {e1, e2, e3}
    Aggregates = {acc1, acc2}
    Agg <- MCAgg
    Copies = {c1}
    CopyOf <- MCOneCopy
    Rank <- MCTextRank
    SeqSources = {"version"}
    Limit = 3
    MaxInstant = 3
    Faults = {}
    MaxFaults = 0
    MaxDirect = 0
    MaxRestarts = 0
    Stoppers = {}
INVARIANTS
    DeliveredInOrder
