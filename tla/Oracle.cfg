SPECIFICATION FairSpec
CONSTANTS
    Currencies = {SOL, ETH}
    MaxWsFails = 3
    RateTTL = 12
    PollInterval = 6
    HttpTimeout = 2
    ReconnectDelay = 1
    ReadDeadline = 6
    DialTimeout = 9
    MaxFaults = 2
INVARIANTS
    IInv
    RatesAreFresh
    SteadyPollingKeepsRates
PROPERTIES
    PollingRestoresRates
