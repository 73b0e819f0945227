SPECIFICATION Spec
CONSTANTS
    Terms = {terms}
    Missing = Missing
    Quantities = {0, 1}
    Prices = {0, 1}
    OrderTypes = {"LIMIT", "MARKET"}
    KeepsQuantity = FALSE
    Users = {u1, u2}
    Kinds = {"Order", "Alert", "Position"}
    Closed = Closed
    MaxCommands = 4
    MaxFaults = 1
INVARIANTS
    TypeOK
    LegalHistory
    PlacedFirst
    ReplayIsLive
    RecordedOnce
    ModifiesChange
