SPECIFICATION Spec
CONSTANTS
    Attempts = {a1, a2}
    Rows = {alice, bob}
    Tokens = {tok1}
    Amounts = {1}
    Opening = 2
    Nobody = Nobody
INVARIANTS
    CompletedForTheOneCharged
CHECK_DEADLOCK FALSE
