SPECIFICATION FairSpec
CONSTANTS
    Consumers = {c1, c2}
    NoConsumer = NoConsumer
    Users = {alice, bob}
    AllCurrencies <- TwoCurrencies
    MaxFaults = 1
    MaxRebalances = 1
INVARIANTS
    IInv
    ProvisionedHaveWallets
PROPERTIES
    AddressesAreFinal
    EveryUserIsWatched
CHECK_DEADLOCK FALSE
