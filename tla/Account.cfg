CONSTANTS
    Nobody = Nobody
    People = {ann}
    Slots = {c1, c3}
    ListSlot = c3
    MaxTokens = 2
    MaxTrips = 1
    Quota = 1
SPECIFICATION FairSpec
INVARIANTS SessionsHold FreshUnlessLagging
PROPERTY LoadingEnds
