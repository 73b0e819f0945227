SPECIFICATION Spec
CONSTANTS
    i1 = i1
    i2 = i2
    alice = alice
    bob = bob
    Terms = {alice, bob}
    Missing = Missing
    Quantities = {1}
    Prices = {1}
    OrderTypes = {"LIMIT"}
    KeepsQuantity = FALSE
    Kinds = {"Order"}
    Ids = {i1, i2}
    NoId = NoId
    Owner <- MCOwner
    d1 = d1
    d2 = d2
    Dispatchers = {d1}
    Idle = Idle
    Readers = {"r1"}
    Nothing = Nothing
    MaxEvents = 3
    MaxRestarts = 0
INVARIANTS
    SnapshotsStay
