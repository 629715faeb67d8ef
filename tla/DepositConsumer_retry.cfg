SPECIFICATION Spec
CONSTANTS
    Consumers = {c1, c2}
    NoConsumer = NoConsumer
    Rows = {alice}
    Outsider = Outsider
    DepositKeys = {key1, key2}
    Amounts = {1}
    MaxLog = 2
    MaxFaults = 1
INVARIANTS
    FailureIsReprocessed
CHECK_DEADLOCK FALSE
