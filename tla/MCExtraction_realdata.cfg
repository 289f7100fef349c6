SPECIFICATION Spec
CONSTANTS
    cayman = cayman
    zurich = zurich
    account = account
    cash = cash
    Words = {cayman, zurich, account, cash}
    EntityTypes <- MCEntityTypes
    TypesOf <- MCTypesOf
    Patterned = {account}
    Null = Null
    Textual = Textual
    ThisYear = 2024
    LargeTransfer = 5000000
    RoundNumber = 1000000
    MaxTransactions = 1
    HighRisk = {cayman}
    Structuring = {cash}
    Texts <- MCTexts
    Figures <- MCFigures
    Amounts <- MCAmounts
    Inventions <- MCInventions
    MaxLines = 2
    MaxRetries = 1
CHECK_DEADLOCK FALSE
INVARIANTS
    RealDataIsSeen
