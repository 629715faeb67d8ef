SPECIFICATION Spec
CONSTANTS
    Consumers = {c1}
    NoConsumer = NoConsumer
    Users = {alice}
    AllCurrencies <- TwoCurrencies
    MaxFaults = 2
    MaxRebalances = 0
SYMMETRY Symm
INVARIANTS
    RetryRecoversEvents
CHECK_DEADLOCK FALSE
