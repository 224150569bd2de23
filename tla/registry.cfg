SPECIFICATION FairSpec
CONSTANTS
    Adapters = {"consul", "etcd"}
    Updater = {u1, u2}
    NoEntry = NoEntry
    MaxUpdates = 3
    MaxFaults = 2
CHECK_DEADLOCK FALSE
INVARIANTS OnlyLateEntries OneCallIsRegistered EntryIsTied
PROPERTIES LeasedEntryGoes
