CONSTANTS
    ann = ann
    bob = bob
    c1 = c1
    c2 = c2
    c3 = c3
    Nobody = Nobody
    People = {ann, bob}
    Slots = {c1, c2, c3}
    ListSlot = c3
    MaxTokens = 2
    MaxTrips = 2
    Quota = 1
SPECIFICATION ServerSpec
SYMMETRY Interchangeable
INVARIANTS ServerTypeOK QuotaUnlessOverlap TripHasOneOwner
