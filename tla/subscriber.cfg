SPECIFICATION SubscriberSpec
CONSTANTS
    Id = {a, b, c}
    Weight = {0, 2}
    MaxLists = 3
    MaxFaults = 2
SYMMETRY IdSymmetry
CHECK_DEADLOCK FALSE
INVARIANTS EventsLeadToList PicksFollowWeights
