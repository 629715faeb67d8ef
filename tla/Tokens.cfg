SPECIFICATION FairSpec
CONSTANTS
    Devices = {d1, d2}
    Users = {alice, bob}
    MaxAtOnce = 2
    MaxRequests = 3
    First = d1
    FirstUser = alice
    MaxExpiries = 1
    MaxFaults = 2
    Nobody = Nobody
INVARIANTS
    IInv
    AccountOwnsTokens
PROPERTIES
    RefusedForCause
    EveryRequestEnds
CHECK_DEADLOCK FALSE
