SPECIFICATION Spec
CONSTANTS
    Attempts = {a1, a2, a3}
    Rows = {alice, bob}
    Tokens = {tok1, tok2}
    Amounts = {1, 3}
    Opening = 2
    Nobody = Nobody
SYMMETRY Symm
INVARIANTS
    IInv
    CompletedMeansPaid
    AnswerSound
    ChargesMatchAttempts
PROPERTIES
    SessionsStaySettled
CHECK_DEADLOCK FALSE
