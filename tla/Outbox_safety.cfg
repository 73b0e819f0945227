SPECIFICATION Spec
CONSTANTS
    e1 = e1
    e2 = e2
    e3 = e3
    acc1 = acc1
    acc2 = acc2
    c1 = c1
    c2 = c2
    NoEvent = NoEvent
    Events = {e1, e2, e3}
    Aggregates = {acc1, acc2}
    Agg <- MCAgg
    Copies = {c1, c2}
    CopyOf <- MCCopyOf
    Rank <- MCRank
    SeqSources = {"version", "store"}
    Limit = 2
    MaxInstant = 3
    Faults = {"outbox", "append", "query", "mark"}
    MaxFaults = 2
    MaxDirect = 1
    MaxRestarts = 1
    Stoppers = {}
INVARIANTS
    TypeOK
    NoSilentLoss
    DeliveredInOrder
    StartupRecovers
PROPERTIES
    PromiseSpec
