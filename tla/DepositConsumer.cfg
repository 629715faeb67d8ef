SPECIFICATION FairSpec
CONSTANTS
    Consumers = {c1, c2}
    NoConsumer = NoConsumer
    Rows = {alice}
    Outsider = Outsider
    DepositKeys = {key1, key2}
    Amounts = {1}
    MaxLog = 3
    MaxFaults = 2
INVARIANTS
    IInv
    NothingSkipped
    CreditedInOrder
    ExactlyOnce
PROPERTIES
    EveryMessageAttempted
CHECK_DEADLOCK FALSE
