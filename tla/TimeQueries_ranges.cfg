SPECIFICATION Spec
CONSTANTS
    alice = alice
    Places = 2
    Readings <- MCReadings
    Zones <- MCZones
    EmailHashes = {alice}
    NoHash = NoHash
    MaxEvents = 2
INVARIANTS
    RangeExact
    Chronological
