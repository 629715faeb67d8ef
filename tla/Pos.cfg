SPECIFICATION MCSpec
CONSTANTS
    a1 = a1
    alice = alice
    Attempts = {a1, a2}
    Rows = {alice, bob}
    Tokens = {a1, a2}
    Amounts = {1}
    Opening = 2
    MaxScans = 2
    Nobody = Nobody
INVARIANTS
    OneChargePerScan
    ScreenTellsTheTruth
    NoSaleIsWiped
PROPERTIES
    TerminalComesFree
CHECK_DEADLOCK FALSE
