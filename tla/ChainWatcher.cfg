SPECIFICATION FairSpec
CONSTANTS
    alice = alice
    bob = bob
    Networks <- AllNetworks
    Addresses <- TwoAddresses
    Transactions <- SomeTransactions
    MaxSigs = 2
    TronLimit = 2
    Confirmations = 1
    KeyLife = 3
    MaxGrowth = 1
    MaxHeight = 4
    MaxPaying = 3
    MaxJoin = 1
    MaxFaults = 1
INVARIANTS
    IInv
    PublishedOnce
    PublishedAreFinal
PROPERTIES
    WatcherCatchesUp
CHECK_DEADLOCK FALSE
