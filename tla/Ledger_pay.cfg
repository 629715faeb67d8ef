SPECIFICATION FairSpec
CONSTANTS
    DebitCalls = {p1, p2}
    CreditCalls = {d1}
    Rows = {alice}
    Tokens = {tok1, tok2}
    DepositKeys = {key1}
    Amounts = {1, 2}
    OpenRows = {alice}
    Opening = 1
    MaxFaults = 1
    MaxTopUp = 1
    NoCall = NoCall
INVARIANTS
    Conservation
    UniqueRef
    NoLostUpdate
    AnswerSound
PROPERTIES
    EveryCallAnswers
    RowsComeFree
CHECK_DEADLOCK FALSE
