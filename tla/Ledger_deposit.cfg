SPECIFICATION Spec
CONSTANTS
    DebitCalls = {p1, p2}
    CreditCalls = {d1, d2}
    Rows = {alice, bob}
    Tokens = {tok1}
    DepositKeys = {key1, key2}
    Amounts = {1}
    OpenRows = {alice}
    Opening = 1
    MaxFaults = 1
    MaxTopUp = 1
    NoCall = NoCall
SYMMETRY Symm
INVARIANTS
    IInv
    DepositBookedOnce
    NoWaitCycle
PROPERTIES
    ImplementsAtomicLedger
CHECK_DEADLOCK FALSE
